---- MODULE Spec2Model ----
(***************************************************************************)
(* Admin control plane of the backend (src/unnamed/part_015): the cache    *)
(* helpers, the role-aware rate limiters, the admin gate, the single-user  *)
(* action PUT /user/:id, the bulk action POST /actions and the log query.  *)
(*                                                                         *)
(* The persistent store is the collaborator the handlers talk to: a write  *)
(* made with { session } is staged in the session's transaction and        *)
(* becomes visible at commitTransaction; abortTransaction and endSession   *)
(* discard what is staged.  A write made without a session applies at      *)
(* once.                                                                   *)
(***************************************************************************)
EXTENDS Integers, Sequences, FiniteSets, TLC

VARIABLES
    users,          \* committed User collection: id -> document
    cards,          \* committed Card collection
    pendingActions, \* committed PendingAction collection
    listings,       \* committed Listing collection
    trades,         \* committed Trade collection
    now,            \* the clock read by new Date()
    txn,            \* the open session's staged collections, or NoTxn
    bpc,            \* POST /actions: position of the handler
    breq,           \* POST /actions: req.user and req.body of the request
    btasks,         \* POST /actions: writes of the action not yet applied
    bresult,        \* POST /actions: the handler's `result`
    bres,           \* POST /actions: the response sent
    bsnap,          \* the committed collections as they were at handler entry
    nreq,           \* requests started
    isRedisConnected, \* the module's availability flag
    redisClient,    \* "client" once initializeRedis created it
    cache,          \* the cache backend: key -> stored string
    lastEvent,      \* the most recent event of the cache connection
    ipc,            \* initializeRedis: position of the function
    ikeys,          \* POST /actions: the keys invalidateCache is about to delete
    commits,        \* transactions committed so far
    rq,             \* the read requests in flight: reader -> position and data
    qenv,           \* process.env: TEST_IP and ADMIN_USER_ID
    hits,           \* each limiter's store: limiter -> key -> hits in the window
    callers,        \* each limiter: the callers it has counted in the window
    qlast,          \* the limiter's answer to the latest request
    upc,            \* PUT /user/:id: position of the handler
    ureq,           \* PUT /user/:id: req.user, req.params and req.body
    ures,           \* PUT /user/:id: the response sent
    utxn,           \* PUT /user/:id: the session's staged User collection, or NoTxn
    nput,           \* PUT /user/:id requests started
    gres,           \* the admin gate's answers, oldest first
    rt,             \* the latest call of a cache helper made on its own
    metric,         \* GET /metrics: one entry of the response, with its inputs
    health,         \* what the health queries of generateSystemAlerts returned
    alerts,         \* the list generateSystemAlerts returned
    usageMap,       \* the usage counters: key -> count
    usageSeen,      \* what the incrementUsage calls returned, oldest first
    gq              \* the latest GET request followed through its route's chain

dbvars == <<users, cards, pendingActions, listings, trades>>
bulkvars == <<txn, bpc, breq, btasks, bresult, bres, bsnap, nreq, ikeys>>
cachevars == <<isRedisConnected, redisClient, lastEvent, ipc, cache>>
readvars == <<rq>>
vars == <<users, cards, pendingActions, listings, trades, now,
          txn, bpc, breq, btasks, bresult, bres, bsnap, nreq,
          isRedisConnected, redisClient, lastEvent, ipc, cache, ikeys, commits, rq,
          qenv, hits, callers, qlast, upc, ureq, ures, utxn, nput, gres,
          rt, metric, health, alerts, usageMap, usageSeen, gq>>
quotavars == <<qenv, hits, callers, qlast>>
uservars == <<upc, ureq, ures, utxn, nput, gres>>

\* The state of the helpers exercised on their own.
auxvars == <<rt, metric, health, alerts, usageMap, usageSeen, gq>>

\* What the handlers of POST /actions never touch.
outsideBulk == <<rq, quotavars, uservars, auxvars>>

\* What the read requests and the cache client never touch.
outsideRead == <<txn, bpc, breq, btasks, bresult, bres, bsnap, nreq, ikeys, commits,
                 quotavars, uservars, auxvars>>

\* What the rate limiters never touch.
outsideQuota == <<dbvars, now, bulkvars, cachevars, commits, rq, uservars, auxvars>>

\* What PUT /user/:id and the admin gate never touch.
outsideUser == <<cards, pendingActions, listings, trades, now, bulkvars,
                 isRedisConnected, redisClient, lastEvent, ipc, rq, quotavars, auxvars>>

(***************************************************************************)
(* Bounds of the model.                                                    *)
(***************************************************************************)
MaxRequests == 1     \* POST /actions requests
MaxTime == 3         \* clock ticks
MaxOver == 2         \* requests a limiter sees past its ceiling
MaxPuts == 2         \* PUT /user/:id requests
MaxGates == 2        \* requests answered by the admin gate alone

(***************************************************************************)
(* Values.                                                                 *)
(***************************************************************************)
Null == "null"          \* null, undefined or a missing field
NoTxn == [state |-> "none"]   \* no transaction in progress
EmptyDoc == <<>>        \* the object {}

Eq(v) == [op |-> "eq", val |-> v]      \* { field: v }
Ne(v) == [op |-> "ne", val |-> v]      \* { field: { $ne: v } }

UserIds == {"m", "a", "u"}
Requestors == {"m", "a"}

\* Math.max(0, updates.x || dflt)
OrDefault(upd, f, dflt) ==
    LET v == IF f \in DOMAIN upd THEN upd[f] ELSE 0
        w == IF v = 0 THEN dflt ELSE v
    IN IF w < 0 THEN 0 ELSE w

(***************************************************************************)
(* Documents, filters and update operators of the store.                   *)
(***************************************************************************)
HasField(doc, f) == f \in DOMAIN doc

\* One condition of a query filter against one document.  A missing field
\* never equals a value, and always satisfies $ne.
MatchesCond(doc, f, c) ==
    IF c.op = "eq" THEN HasField(doc, f) /\ doc[f] = c.val
    ELSE ~(HasField(doc, f) /\ doc[f] = c.val)

Matches(doc, filter) == \A f \in DOMAIN filter : MatchesCond(doc, f, filter[f])

\* { $set: upd } on one document; paths the schema does not hold are dropped.
ApplySet(doc, upd) ==
    [f \in DOMAIN doc |-> IF f \in DOMAIN upd THEN upd[f] ELSE doc[f]]

\* Model.updateMany(filter, { $set: upd }) on a collection.
UpdateMany(coll, filter, upd) ==
    [id \in DOMAIN coll |->
        IF Matches(coll[id], filter) THEN ApplySet(coll[id], upd) ELSE coll[id]]

\* modifiedCount of an update that turned collection `before` into `after`.
ModifiedCount(before, after) ==
    Cardinality({id \in DOMAIN before : after[id] # before[id]})

\* { $push: { activities: rec } } on one user.
PushActivity(coll, id, rec) ==
    IF id \in DOMAIN coll
    THEN [coll EXCEPT ![id].activities = Append(@, rec)]
    ELSE coll

\* sanitizeHtml(value.trim(), { allowedTags: [] }) on the strings requests carry.
StripTags(v) == IF v = "<b>expired</b>" THEN "expired" ELSE v

StringFields == {"role", "status"}

\* The sanitizedUpdates loop of bulkUpdate: strings are stripped of markup,
\* every other value is copied.
SanitizeUpdates(upd) ==
    [f \in DOMAIN upd |-> IF f \in StringFields THEN StripTags(upd[f]) ELSE upd[f]]

\* result.x || 0
Field(doc, f) == IF f \in DOMAIN doc THEN doc[f] ELSE 0

(***************************************************************************)
(* Request inputs of POST /actions.                                        *)
(***************************************************************************)
JsTrue == "true"          \* the boolean true
JsFalse == "false"        \* the boolean false
StrTrue == "'true'"       \* the string 'true'
StrFalse == "'false'"     \* the string 'false'
StrZero == "'0'"          \* the string '0'
StrYes == "'yes'"         \* a string that is no boolean

Confirms == {JsTrue, JsFalse, StrTrue, StrFalse, StrZero, StrYes, Null}

\* body('confirm').isBoolean(): the value, as a string, is one of true, false, 1, 0.
IsBooleanValid(c) == c \in {JsTrue, JsFalse, StrTrue, StrFalse, StrZero}

\* !confirm is false for the boolean true and for every non-empty string.
Truthy(c) == c \in {JsTrue, StrTrue, StrFalse, StrZero, StrYes}

BulkActions == {"bulkUpdate", "systemMaintenance", "dataExport", "balanceReset", "clearExpired"}
ValidTargets == {"users", "cards", "trades", "listings", "all"}
Destructive == {"balanceReset", "clearExpired", "systemMaintenance"}

ActionInputs == BulkActions \cup {"dropAll"}
TargetInputs == ValidTargets \cup {Null, "sessions"}

FilterInputs == {EmptyDoc, "role" :> Eq("user"), "role" :> Eq("master")}

UpdateInputs ==
    { EmptyDoc,
      "kidzcoinBalance" :> 10000,
      "kidzcoinBalance" :> 500,
      "role" :> "master",
      "activities" :> <<>>,
      "status" :> "<b>expired</b>" }

Body(action, target, filters, updates, confirm) ==
    [action |-> action, target |-> target, filters |-> filters,
     updates |-> updates, confirm |-> confirm]

\* The request bodies the model sends: every action with every confirm value,
\* every bulk update, and the balance resets and exports over every filter.
BulkInputs ==
    {Body(a, Null, EmptyDoc, EmptyDoc, c) : a \in ActionInputs, c \in Confirms}
    \cup {Body("bulkUpdate", t, f, u, c) :
            t \in TargetInputs, f \in FilterInputs, u \in UpdateInputs,
            c \in {JsTrue, StrFalse}}
    \cup {Body("balanceReset", "users", f, u, c) :
            f \in FilterInputs,
            u \in {EmptyDoc, "kidzcoinBalance" :> 10000, "kidzcoinBalance" :> 500,
                   "kidzcoinBalance" :> 0, "kidzcoinBalance" :> -5},
            c \in {JsTrue, StrFalse}}
    \cup {Body("dataExport", "all", f, EmptyDoc, JsTrue) : f \in FilterInputs}

\* The validators of the route, lines 1553-1557.
BulkValid(action, target, confirm) ==
    /\ action \in BulkActions
    /\ target = Null \/ target \in ValidTargets
    /\ IsBooleanValid(confirm)

(***************************************************************************)
(* The cache helpers, lines 85-118.  Keys are the ':'-separated segments   *)
(* of the key string; a pattern 'a:b:*' is the segments before the star.   *)
(***************************************************************************)
Miss == [kind |-> "null"]
Threw == [kind |-> "throw"]
Hit(v) == [kind |-> "value", body |-> v]

\* JavaScript values: a response body is a record of its fields, any other
\* value carries its type in t.
JsNull == [t |-> "null"]
JsUndefined == [t |-> "undefined"]
JsNaN == [t |-> "NaN"]
JsNumber(n) == [t |-> "number", n |-> n]
JsString(str) == [t |-> "string", s |-> str]
JsBoolean(b) == [t |-> "boolean", b |-> b]
JsDate(iso) == [t |-> "Date", iso |-> iso]
IsObject(v) == "t" \notin DOMAIN v

\* The value JSON.stringify writes for v: NaN is written as null, a Date as
\* the string of its toJSON().
ToJson(v) ==
    IF IsObject(v) THEN v
    ELSE IF v.t = "NaN" THEN JsNull
    ELSE IF v.t = "Date" THEN JsString(v.iso)
    ELSE v

\* JSON.stringify(v): a text, or undefined when v is undefined.
Stringify(v) ==
    IF ~IsObject(v) /\ v.t = "undefined" THEN JsUndefined ELSE [json |-> ToJson(v)]

\* JSON.parse(str)
Parse(str) == str.json

\* redisClient.keys(pattern): the stored keys the glob matches.
KeysMatching(store, pattern) ==
    {k \in DOMAIN store :
        /\ Len(k) > Len(pattern)
        /\ SubSeq(k, 1, Len(pattern)) = pattern}

\* GetCachedData as it would be without its try/catch.
GetCachedDataNoCatch(key, ok) ==
    IF ~isRedisConnected THEN Miss
    ELSE IF ~ok THEN Threw
    ELSE IF key \in DOMAIN cache THEN Hit(Parse(cache[key])) ELSE Miss

\* Whether a parsed value passes a JavaScript truth test.
TruthyValue(v) ==
    \/ IsObject(v)
    \/ v.t = "Date"
    \/ v.t = "boolean" /\ v.b
    \/ v.t = "number" /\ v.n # 0
    \/ v.t = "string" /\ v.s # ""

\* GetCachedData as it would be if it tested the parsed value, not the text.
GetCachedDataFalsy(key, ok) ==
    IF ~isRedisConnected THEN Miss
    ELSE IF ~ok THEN Miss
    ELSE IF key \in DOMAIN cache /\ TruthyValue(Parse(cache[key]))
         THEN Hit(Parse(cache[key])) ELSE Miss

\* GetCachedData as it would be without the test of the flag on its first line.
GetCachedDataUnguarded(key, ok) ==
    IF ~ok THEN Miss
    ELSE IF key \in DOMAIN cache THEN Hit(Parse(cache[key])) ELSE Miss

\* getCachedData(key); ok tells whether the backend call succeeds.
GetCachedData(key, ok) ==
    IF ~isRedisConnected THEN Miss
    ELSE IF ~ok THEN Miss
    ELSE IF key \in DOMAIN cache THEN Hit(Parse(cache[key])) ELSE Miss

\* setCachedData(key, data, ttl): what it returns, and the store it leaves.
SetCachedData(key, data, ok) ==
    IF ~isRedisConnected THEN [kind |-> "false", store |-> cache]
    ELSE IF ~ok \/ Stringify(data) = JsUndefined THEN [kind |-> "false", store |-> cache]
    ELSE [kind |-> "true",
          store |-> [k \in DOMAIN cache \cup {key} |->
                        IF k = key THEN Stringify(data) ELSE cache[k]]]

\* The key GET /users builds from its query, line 320.
UsersKey(q) == <<"admin", "users", q>>

\* A response body a read route cached earlier.
CachedBody == [success |-> TRUE, total |-> 750, epoch |-> 0]

\* invalidateCache(pattern), first await: the keys it will delete.
InvalidateKeys(pattern, ok) ==
    IF ~isRedisConnected THEN [kind |-> "return", keys |-> {}]
    ELSE IF ~ok THEN [kind |-> "return", keys |-> {}]
    ELSE [kind |-> "keys", keys |-> KeysMatching(cache, pattern)]

\* invalidateCache(pattern), second await: redisClient.del(keys).
InvalidateDel(keys, ok) ==
    IF ~ok THEN [kind |-> "return", store |-> cache]
    ELSE [kind |-> "return", store |-> [k \in DOMAIN cache \ keys |-> cache[k]]]

(***************************************************************************)
(* Authentication and the admin gate.                                      *)
(***************************************************************************)
\* authMiddleware.verifyToken: req.user is the caller's stored identity.
VerifyToken(id) ==
    [id |-> id, role |-> users[id].role, isAdmin |-> users[id].isAdmin]

\* RequireAdminOrMaster as it would be without its look at the stored flags.
RequireRoleOnly(id) ==
    LET reqUser == VerifyToken(id) IN
    IF ~reqUser.isAdmin /\ reqUser.role # "master" THEN "INSUFFICIENT_PRIVILEGES"
    ELSE "next"

\* requireAdminOrMaster: "next", or the errorCode of the 403 it sends.
RequireAdminOrMaster(id) ==
    LET reqUser == VerifyToken(id) IN
    IF ~reqUser.isAdmin /\ reqUser.role # "master" THEN "INSUFFICIENT_PRIVILEGES"
    ELSE IF id \notin DOMAIN users \/ users[id].isSuspended \/ users[id].isBanned
         THEN "ACCOUNT_RESTRICTED"
         ELSE "next"

(***************************************************************************)
(* The store's sessions.                                                   *)
(***************************************************************************)
Committed ==
    [users |-> users, cards |-> cards, pendingActions |-> pendingActions,
     listings |-> listings, trades |-> trades]

\* session.commitTransaction(): what the session staged becomes the store.
CommitTransaction(staged) ==
    /\ users' = staged.users
    /\ cards' = staged.cards
    /\ pendingActions' = staged.pendingActions
    /\ listings' = staged.listings
    /\ trades' = staged.trades

(***************************************************************************)
(* POST /actions, lines 1558-1847.                                         *)
(***************************************************************************)
RetentionTicks == 2     \* 30 days, in clock ticks of 15 days
DefaultKidzCoin == 10000
DefaultDollars == 10

NoReq == [by |-> Null, role |-> Null, action |-> Null, target |-> Null,
          filters |-> EmptyDoc, updates |-> EmptyDoc, confirm |-> Null,
          at |-> 0, userIds |-> {}, cardIds |-> {}, activeCards |-> {}]
NoRes == [status |-> 0, message |-> Null]

\* The filter the users update runs with: a requestor who is not master has
\* filters.role overwritten with { $ne: 'master' }.
ScopedFilters(req) ==
    IF req.role # "master"
    THEN [f \in DOMAIN req.filters \cup {"role"} |->
            IF f = "role" THEN Ne("master") ELSE req.filters[f]]
    ELSE req.filters

\* The writes each action performs inside the session.
TasksOf(action) ==
    CASE action = "bulkUpdate" -> {"updateMany"}
      [] action = "balanceReset" -> {"resetBalances"}
      [] action = "clearExpired" -> {"expireActions", "expireListings"}
      [] action = "systemMaintenance" ->
            {"purgeActions", "orphanCards", "parentRefs", "pullCards", "marketplace"}
      [] OTHER -> {}

\* case 'bulkUpdate', lines 1613-1635.
BulkUpdateWrite(staged, req) ==
    LET upd == SanitizeUpdates(req.updates) IN
    CASE req.target = "users" ->
            [staged EXCEPT !.users = UpdateMany(@, ScopedFilters(req), upd)]
      [] req.target = "cards" ->
            [staged EXCEPT !.cards = UpdateMany(@, req.filters, upd)]
      [] req.target = "trades" ->
            [staged EXCEPT !.trades = UpdateMany(@, req.filters, upd)]
      [] req.target = "listings" ->
            [staged EXCEPT !.listings = UpdateMany(@, req.filters, upd)]

\* BalanceResetWrite as it would be if the filters were dropped.
BalanceResetUnfiltered(staged, req) ==
    [staged EXCEPT !.users =
        UpdateMany(@, EmptyDoc,
            [kidzcoinBalance |-> OrDefault(req.updates, "kidzcoinBalance", DefaultKidzCoin),
             dollarBalance |-> OrDefault(req.updates, "dollarBalance", DefaultDollars)])]

\* case 'balanceReset', lines 1638-1657.
BalanceResetWrite(staged, req) ==
    [staged EXCEPT !.users =
        UpdateMany(@, ScopedFilters(req),
            [kidzcoinBalance |-> OrDefault(req.updates, "kidzcoinBalance", DefaultKidzCoin),
             dollarBalance |-> OrDefault(req.updates, "dollarBalance", DefaultDollars)])]

\* ExpireMany as it would be with $lte in place of $lt.
ExpireManyInclusive(coll, s, at) ==
    [id \in DOMAIN coll |->
        IF coll[id].status = s /\ coll[id].expiresAt <= at
        THEN [coll[id] EXCEPT !.status = "expired"]
        ELSE coll[id]]

\* { status: s, expiresAt: { $lt: at } } -> { $set: { status: 'expired' } }
ExpireMany(coll, s, at) ==
    [id \in DOMAIN coll |->
        IF coll[id].status = s /\ coll[id].expiresAt < at
        THEN [coll[id] EXCEPT !.status = "expired"]
        ELSE coll[id]]

\* PendingAction.deleteMany of the maintenance sweep, lines 1730-1733.
PurgeActions(coll, at) ==
    LET gone == {id \in DOMAIN coll :
                    /\ coll[id].status \in {"expired", "approved", "rejected"}
                    /\ coll[id].createdAt < at - RetentionTicks}
    IN [id \in DOMAIN coll \ gone |-> coll[id]]

\* Card.updateMany({ assignedTo: { $nin: userIds } }, { $unset: { assignedTo } })
OrphanCards(coll, userIds) ==
    [id \in DOMAIN coll |->
        IF coll[id].assignedTo \notin userIds
        THEN [coll[id] EXCEPT !.assignedTo = Null] ELSE coll[id]]

\* User.updateMany({ parentId: { $nin: userIds } }, { $unset: { parentId } })
ParentRefs(coll, userIds) ==
    [id \in DOMAIN coll |->
        IF coll[id].parentId \notin userIds
        THEN [coll[id] EXCEPT !.parentId = Null] ELSE coll[id]]

\* User.updateMany({}, { $pull: { assignedCards: { $nin: cardIds } } })
PullCards(coll, cardIds) ==
    [id \in DOMAIN coll |-> [coll[id] EXCEPT !.assignedCards = @ \cap cardIds]]

\* Card.updateMany({ isInMarketplace: true, _id: { $nin: activeCards } }, ...)
MarketplaceFix(coll, activeCards) ==
    [id \in DOMAIN coll |->
        IF coll[id].isInMarketplace /\ id \notin activeCards
        THEN [coll[id] EXCEPT !.isInMarketplace = FALSE] ELSE coll[id]]

\* One write of the running action, applied to the session's staged state.
ApplyTask(staged, req, task) ==
    CASE task = "updateMany" -> BulkUpdateWrite(staged, req)
      [] task = "resetBalances" -> BalanceResetWrite(staged, req)
      [] task = "expireActions" ->
            [staged EXCEPT !.pendingActions = ExpireMany(@, "pending", req.at)]
      [] task = "expireListings" ->
            [staged EXCEPT !.listings = ExpireMany(@, "active", req.at)]
      [] task = "purgeActions" ->
            [staged EXCEPT !.pendingActions = PurgeActions(@, req.at)]
      [] task = "orphanCards" ->
            [staged EXCEPT !.cards = OrphanCards(@, req.userIds)]
      [] task = "parentRefs" ->
            [staged EXCEPT !.users = ParentRefs(@, req.userIds)]
      [] task = "pullCards" ->
            [staged EXCEPT !.users = PullCards(@, req.cardIds)]
      [] task = "marketplace" ->
            [staged EXCEPT !.cards = MarketplaceFix(@, req.activeCards)]

\* The collection a write goes to.
CollectionOf(task, req) ==
    CASE task = "updateMany" -> req.target
      [] task \in {"resetBalances", "parentRefs", "pullCards"} -> "users"
      [] task \in {"orphanCards", "marketplace"} -> "cards"
      [] task = "expireListings" -> "listings"
      [] task \in {"expireActions", "purgeActions"} -> "pendingActions"

\* The count the write reports: deletedCount of the deleteMany, modifiedCount
\* of every updateMany.
CountOf(before, after, task, req) ==
    LET c == CollectionOf(task, req) IN
    IF task = "purgeActions"
    THEN Cardinality(DOMAIN before[c] \ DOMAIN after[c])
    ELSE ModifiedCount(before[c], after[c])

\* The field of `result` the write's count is stored in.
ResultField(task) ==
    CASE task \in {"updateMany", "resetBalances"} -> "modifiedCount"
      [] task = "expireActions" -> "expiredActions"
      [] task = "expireListings" -> "expiredListings"
      [] task = "purgeActions" -> "expiredActionsRemoved"
      [] task = "orphanCards" -> "orphanedCardsFixed"
      [] task = "parentRefs" -> "invalidReferencesFixed"
      [] task = "pullCards" -> "userCardArraysCleaned"
      [] task = "marketplace" -> "marketplaceStatusFixed"

\* The audit record of a bulk action, lines 1796-1813.
BulkAuditRecord(req, result) ==
    [type |-> "admin_bulk_action", action |-> req.action,
     affected |-> IF Field(result, "modifiedCount") # 0
                  THEN Field(result, "modifiedCount")
                  ELSE Field(result, "deletedCount")]

\* Listing.distinct('cardId', { status: 'active' })
ActiveCards == {listings[l].cardId : l \in {x \in DOMAIN listings : listings[x].status = "active"}}

Respond(status, message) == [status |-> status, message |-> message]

\* Handler entry up to the first write: the session is started, the body is
\* validated, confirmation and role are checked.  A request that returns
\* early leaves the session's transaction open with nothing staged.
BulkStart(by, body) ==
    /\ bpc = "idle"
    /\ nreq < MaxRequests
    /\ RequireAdminOrMaster(by) = "next"
    /\ nreq' = nreq + 1
    /\ LET reqUser == VerifyToken(by)
           req == [by |-> by, role |-> reqUser.role, action |-> body.action,
                   target |-> body.target, filters |-> body.filters,
                   updates |-> body.updates, confirm |-> body.confirm, at |-> now,
                   userIds |-> DOMAIN users, cardIds |-> DOMAIN cards,
                   activeCards |-> ActiveCards]
           early ==
             IF ~BulkValid(body.action, body.target, body.confirm)
                THEN Respond(400, "Validation failed")
             ELSE IF ~Truthy(body.confirm)
                THEN Respond(400, "Bulk actions require explicit confirmation")
             ELSE IF body.action \in Destructive /\ reqUser.role # "master"
                THEN Respond(403, "Master role required for this operation")
             ELSE IF body.action = "bulkUpdate"
                     /\ (body.target = Null \/ DOMAIN body.updates = {})
                THEN Respond(400, "Target and updates required for bulk update")
             ELSE IF body.action = "bulkUpdate" /\ body.target = "all"
                THEN Respond(400, "Invalid target for bulk update")
             ELSE NoRes
       IN /\ breq' = req
          /\ bsnap' = Committed
          /\ bresult' = EmptyDoc
          /\ txn' = Committed
          /\ bres' = early
          /\ IF early # NoRes
             THEN bpc' = "done" /\ btasks' = {}
             ELSE bpc' = "work" /\ btasks' = TasksOf(body.action)
    /\ UNCHANGED <<users, cards, pendingActions, listings, trades, now, ikeys, commits,
                   isRedisConnected, redisClient, lastEvent, ipc, cache, outsideBulk>>

\* BulkWrite as it would be with the { session } option left out of the
\* write: the write applies to the store at once.
BulkWriteNoSession(task) ==
    /\ bpc = "work"
    /\ task \in btasks
    /\ LET after == ApplyTask(Committed, breq, task) IN
        /\ CommitTransaction(after)
        /\ bresult' = (ResultField(task) :> CountOf(Committed, after, task, breq)) @@ bresult
    /\ btasks' = btasks \ {task}
    /\ UNCHANGED <<now, txn, bpc, breq, bres, bsnap, nreq, ikeys, commits,
                   isRedisConnected, redisClient, lastEvent, ipc, cache, outsideBulk>>

\* One awaited write of the action completes inside the session.
BulkWrite(task) ==
    /\ bpc = "work"
    /\ task \in btasks
    /\ LET after == ApplyTask(txn, breq, task) IN
        /\ txn' = after
        /\ bresult' = (ResultField(task) :> CountOf(txn, after, task, breq)) @@ bresult
    /\ btasks' = btasks \ {task}
    /\ UNCHANGED <<users, cards, pendingActions, listings, trades, now,
                   bpc, breq, bres, bsnap, nreq, ikeys, commits,
                   isRedisConnected, redisClient, lastEvent, ipc, cache, outsideBulk>>

\* The audit $push on the requestor's activities, inside the session.
BulkAudit ==
    /\ bpc = "work"
    /\ btasks = {}
    /\ txn' = [txn EXCEPT !.users = PushActivity(@, breq.by, BulkAuditRecord(breq, bresult))]
    /\ bpc' = "commit"
    /\ UNCHANGED <<users, cards, pendingActions, listings, trades, now,
                   breq, btasks, bresult, bres, bsnap, nreq, ikeys, commits,
                   isRedisConnected, redisClient, lastEvent, ipc, cache, outsideBulk>>

\* session.commitTransaction().
BulkCommit ==
    /\ bpc = "commit"
    /\ CommitTransaction(txn)
    /\ txn' = NoTxn
    /\ bpc' = "invalidate"
    /\ commits' = commits + 1
    /\ UNCHANGED <<now, breq, btasks, bresult, bres, bsnap, nreq, ikeys,
                   isRedisConnected, redisClient, lastEvent, ipc, cache, outsideBulk>>

\* invalidateCache('admin:*') up to its first await; when it returns at once
\* the success response follows.
BulkInvalidateKeys(ok) ==
    /\ bpc = "invalidate"
    /\ LET r == InvalidateKeys(<<"admin">>, ok) IN
        IF r.kind = "keys" /\ r.keys # {}
        THEN /\ ikeys' = r.keys
             /\ bpc' = "del"
             /\ bres' = bres
        ELSE /\ ikeys' = {}
             /\ bpc' = "done"
             /\ bres' = Respond(200, "completed successfully")
    /\ UNCHANGED <<users, cards, pendingActions, listings, trades, now, txn,
                   breq, btasks, bresult, bsnap, nreq, commits,
                   isRedisConnected, redisClient, lastEvent, ipc, cache, outsideBulk>>

\* redisClient.del(keys), then the success response.
BulkInvalidateDel(ok) ==
    /\ bpc = "del"
    /\ cache' = InvalidateDel(ikeys, ok).store
    /\ ikeys' = {}
    /\ bpc' = "done"
    /\ bres' = Respond(200, "completed successfully")
    /\ UNCHANGED <<users, cards, pendingActions, listings, trades, now, txn,
                   breq, btasks, bresult, bsnap, nreq, commits,
                   isRedisConnected, redisClient, lastEvent, ipc, outsideBulk>>

\* BulkFail as it would be if invalidateCache let its errors through: the
\* catch block is also entered after the commit.
BulkFailLate ==
    /\ bpc \in {"work", "commit", "invalidate", "del"}
    /\ txn' = NoTxn
    /\ bres' = Respond(500, "Server error while performing bulk action")
    /\ bpc' = "done"
    /\ UNCHANGED <<users, cards, pendingActions, listings, trades, now,
                   breq, btasks, bresult, bsnap, nreq, ikeys, commits,
                   isRedisConnected, redisClient, lastEvent, ipc, cache, outsideBulk>>

\* An awaited store call rejects: the catch block aborts the transaction and
\* answers 500.
BulkFail ==
    /\ bpc \in {"work", "commit"}
    /\ txn' = NoTxn
    /\ bres' = Respond(500, "Server error while performing bulk action")
    /\ bpc' = "done"
    /\ UNCHANGED <<users, cards, pendingActions, listings, trades, now,
                   breq, btasks, bresult, bsnap, nreq, ikeys, commits,
                   isRedisConnected, redisClient, lastEvent, ipc, cache, outsideBulk>>

\* The finally block: session.endSession() drops a transaction still open,
\* and the request is over.
BulkEnd ==
    /\ bpc = "done"
    /\ txn' = NoTxn
    /\ bpc' = "idle"
    /\ breq' = NoReq
    /\ bres' = NoRes
    /\ bresult' = EmptyDoc
    /\ bsnap' = Committed
    /\ UNCHANGED <<users, cards, pendingActions, listings, trades, now, btasks, nreq,
                   ikeys, commits, isRedisConnected, redisClient, lastEvent, ipc, cache, outsideBulk>>

\* The clock advances.  A request reads the clock once, at dispatch, so the
\* ticks that fall inside a request are not told apart from those after it.
Tick ==
    /\ bpc = "idle"
    /\ now < MaxTime
    /\ now' = now + 1
    /\ UNCHANGED <<users, cards, pendingActions, listings, trades,
                   txn, bpc, breq, btasks, bresult, bres, bsnap, nreq, ikeys, commits,
                   isRedisConnected, redisClient, lastEvent, ipc, cache, outsideBulk>>

(***************************************************************************)
(* The read requests: GET /users (inline cache-aside, lines 293-529) and   *)
(* GET /analytics (cacheMiddleware first in the chain, lines 534-870).     *)
(***************************************************************************)
Readers == {"r1"}
Queries == {"q1", "bad"}

\* The query validators of the read routes: "bad" stands for a query they
\* reject (page=0, an unknown period).
QueryValid(q) == q # "bad"

\* The routes that cache inline, and the key they build from the query
\* (lines 320 and 1879).
InlineRoutes == {"users", "logs"}
InlineKey(route, q) == <<"admin", route, q>>
NoUser == [id |-> Null, role |-> Null, isAdmin |-> FALSE]    \* req.user not set yet
NoBody == [success |-> FALSE, total |-> 0, epoch |-> 0]
NoRead == [pc |-> "idle", route |-> Null, by |-> Null, key |-> <<>>,
           wrapped |-> FALSE, availGet |-> FALSE, got |-> [kind |-> "none"],
           fresh |-> NoBody, availSet |-> FALSE, set |-> "none",
           status |-> 0, body |-> NoBody]

RECURSIVE SumKidzCoin(_, _)
SumKidzCoin(coll, ids) ==
    IF ids = {} THEN 0
    ELSE LET id == CHOOSE x \in ids : TRUE
         IN coll[id].kidzcoinBalance + SumKidzCoin(coll, ids \ {id})

\* The body a read route computes from the store; epoch is the number of
\* commits the store had seen when it was read.
FreshBody == [success |-> TRUE, total |-> SumKidzCoin(users, DOMAIN users), epoch |-> commits]

\* CacheMiddleware as it would be if it read req.user?._id: no throw when
\* req.user is not set, and the lookup is made under the id it finds.
CacheMiddlewareAnonymous(reqUser, keyPrefix, url, ok) ==
    LET key == <<"admin", keyPrefix, url, reqUser.id>>
        g == GetCachedData(key, ok)
    IN IF g.kind = "value"
       THEN [kind |-> "hit", wrapped |-> FALSE, key |-> key, got |-> g]
       ELSE [kind |-> "next", wrapped |-> TRUE, key |-> key, got |-> g]

\* cacheMiddleware(keyPrefix) up to next(): reading req.user._id throws when
\* req.user is not set, and the catch block calls next() without wrapping
\* res.json.
CacheMiddleware(reqUser, keyPrefix, url, ok) ==
    IF reqUser.id = Null THEN [kind |-> "next", wrapped |-> FALSE, key |-> <<>>, got |-> Threw]
    ELSE LET key == <<"admin", keyPrefix, url, reqUser.id>>
             g == GetCachedData(key, ok)
         IN IF g.kind = "throw"
            THEN [kind |-> "next", wrapped |-> FALSE, key |-> key, got |-> g]
            ELSE IF g.kind = "value"
            THEN [kind |-> "hit", wrapped |-> FALSE, key |-> key, got |-> g]
            ELSE [kind |-> "next", wrapped |-> TRUE, key |-> key, got |-> g]

\* The request up to its cache lookup.  On GET /analytics the cache
\* middleware runs before verifyToken, so req.user is not set when it runs.
ReadStart(r, route, by, q, ok) ==
    /\ rq[r].pc = "idle"
    /\ RequireAdminOrMaster(by) = "next"
    /\ IF route \in InlineRoutes
       THEN LET key == InlineKey(route, q)
                g == GetCachedData(key, ok)
                base == [NoRead EXCEPT !.route = route, !.by = by, !.key = key,
                                       !.availGet = isRedisConnected /\ ok, !.got = g]
            IN rq' = [rq EXCEPT ![r] =
                        IF ~QueryValid(q)
                        THEN [NoRead EXCEPT !.route = route, !.by = by,
                                            !.pc = "done", !.status = 400]
                        ELSE IF g.kind = "throw"
                        THEN [base EXCEPT !.pc = "done", !.status = 500]
                        ELSE IF g.kind = "value"
                        THEN [base EXCEPT !.pc = "done", !.status = 200, !.body = g.body]
                        ELSE [base EXCEPT !.pc = "query"]]
       ELSE LET mw == CacheMiddleware(NoUser, route, q, ok)
                base == [NoRead EXCEPT !.route = route, !.by = by, !.key = mw.key,
                                       !.wrapped = mw.wrapped]
            IN rq' = [rq EXCEPT ![r] =
                        IF mw.kind = "hit"
                        THEN [base EXCEPT !.pc = "done", !.status = 200, !.body = mw.got.body]
                        ELSE IF ~QueryValid(q)
                        THEN [base EXCEPT !.pc = "done", !.status = 400]
                        ELSE [base EXCEPT !.pc = "query"]]
    /\ UNCHANGED <<users, cards, pendingActions, listings, trades, now,
                   isRedisConnected, redisClient, lastEvent, ipc, cache, outsideRead>>

\* ReadQuery as it would be if the catch block's body went to the cache too.
ReadQueryCachesFailure(r, dbok) ==
    /\ rq[r].pc = "query"
    /\ rq' = [rq EXCEPT ![r] =
                IF ~dbok THEN [@ EXCEPT !.pc = "store", !.fresh = NoBody]
                ELSE IF rq[r].route \in InlineRoutes \/ rq[r].wrapped
                THEN [@ EXCEPT !.pc = "store", !.fresh = FreshBody]
                ELSE [@ EXCEPT !.pc = "done", !.fresh = FreshBody,
                               !.status = 200, !.body = FreshBody]]
    /\ UNCHANGED <<users, cards, pendingActions, listings, trades, now,
                   isRedisConnected, redisClient, lastEvent, ipc, cache, outsideRead>>

\* The handler queries the store and builds its result; a rejected query
\* lands in the catch block.
ReadQuery(r, dbok) ==
    /\ rq[r].pc = "query"
    /\ rq' = [rq EXCEPT ![r] =
                IF ~dbok THEN [@ EXCEPT !.pc = "done", !.status = 500]
                ELSE IF rq[r].route \in InlineRoutes \/ rq[r].wrapped
                THEN [@ EXCEPT !.pc = "store", !.fresh = FreshBody]
                ELSE [@ EXCEPT !.pc = "done", !.fresh = FreshBody,
                               !.status = 200, !.body = FreshBody]]
    /\ UNCHANGED <<users, cards, pendingActions, listings, trades, now,
                   isRedisConnected, redisClient, lastEvent, ipc, cache, outsideRead>>

\* setCachedData(cacheKey, result, ttl), then res.json(result).
ReadStore(r, ok) ==
    /\ rq[r].pc = "store"
    /\ LET w == SetCachedData(rq[r].key, rq[r].fresh, ok) IN
        /\ cache' = w.store
        /\ rq' = [rq EXCEPT ![r] =
                    IF w.kind = "throw"
                    THEN [@ EXCEPT !.pc = "done", !.set = w.kind, !.status = 500,
                                   !.availSet = isRedisConnected /\ ok]
                    ELSE [@ EXCEPT !.pc = "done", !.set = w.kind, !.status = 200,
                                   !.body = rq[r].fresh,
                                   !.availSet = isRedisConnected /\ ok]]
    /\ UNCHANGED <<users, cards, pendingActions, listings, trades, now,
                   isRedisConnected, redisClient, lastEvent, ipc, outsideRead>>

\* The response is out and the request is over.
ReadEnd(r) ==
    /\ rq[r].pc = "done"
    /\ rq' = [rq EXCEPT ![r] = NoRead]
    /\ UNCHANGED <<users, cards, pendingActions, listings, trades, now,
                   isRedisConnected, redisClient, lastEvent, ipc, cache, outsideRead>>

(***************************************************************************)
(* The cache client's life, lines 39-79.                                   *)
(***************************************************************************)
\* initializeRedis() up to its await: the client is created, its handlers
\* are registered and connect() is called.
InitializeRedis ==
    /\ ipc = "idle"
    /\ redisClient' = "client"
    /\ ipc' = "connect"
    /\ UNCHANGED <<users, cards, pendingActions, listings, trades, now, cache,
                   isRedisConnected, lastEvent, rq, outsideRead>>

\* await redisClient.connect() completes: initializeRedis returns.
InitializeRedisReturn ==
    /\ ipc = "connect"
    /\ isRedisConnected
    /\ ipc' = "done"
    /\ UNCHANGED <<users, cards, pendingActions, listings, trades, now, cache,
                   isRedisConnected, redisClient, lastEvent, rq, outsideRead>>

\* await redisClient.connect() rejects: the catch block, lines 76-79.
InitializeRedisCatch ==
    /\ ipc = "connect"
    /\ isRedisConnected' = FALSE
    /\ lastEvent' = "failed"
    /\ ipc' = "done"
    /\ UNCHANGED <<users, cards, pendingActions, listings, trades, now, cache,
                   redisClient, rq, outsideRead>>

\* redisClient.on('connect')
RedisConnect ==
    /\ redisClient = "client"
    /\ isRedisConnected' = TRUE
    /\ lastEvent' = "connect"
    /\ UNCHANGED <<users, cards, pendingActions, listings, trades, now, cache,
                   redisClient, ipc, rq, outsideRead>>

\* redisClient.on('error')
RedisError ==
    /\ redisClient = "client"
    /\ isRedisConnected' = FALSE
    /\ lastEvent' = "error"
    /\ UNCHANGED <<users, cards, pendingActions, listings, trades, now, cache,
                   redisClient, ipc, rq, outsideRead>>

\* redisClient.on('end')
RedisEnd ==
    /\ redisClient = "client"
    /\ isRedisConnected
    /\ isRedisConnected' = FALSE
    /\ lastEvent' = "end"
    /\ UNCHANGED <<users, cards, pendingActions, listings, trades, now, cache,
                   redisClient, ipc, rq, outsideRead>>

\* The backend drops an entry whose TTL has run out.
CacheExpire(k) ==
    /\ k \in DOMAIN cache
    /\ cache' = [x \in DOMAIN cache \ {k} |-> cache[x]]
    /\ UNCHANGED <<users, cards, pendingActions, listings, trades, now,
                   isRedisConnected, redisClient, lastEvent, ipc, rq, outsideRead>>

(***************************************************************************)
(* The cache helpers called on their own, lines 85-118: one call at a      *)
(* time, each remembering the call before it.                              *)
(***************************************************************************)
JsonValues ==
    {JsNull, JsBoolean(FALSE), JsString("null"), CachedBody}
HelperValues == JsonValues \cup {JsUndefined, JsNaN}
HelperKeys == {InlineKey("users", "q1"), InlineKey("logs", "q1")}
HelperPatterns == {<<"admin", "users">>}

NoPrev == [op |-> "none", key |-> <<>>, data |-> JsUndefined, ret |-> FALSE]
NoCall == [op |-> "none", key |-> <<>>, data |-> JsUndefined, ret |-> FALSE,
           got |-> JsUndefined, threw |-> FALSE, avail |-> FALSE, prev |-> NoPrev,
           pc |-> "done", found |-> {}, sent |-> <<>>, blind |-> FALSE]
Prev(c) == [op |-> c.op, key |-> c.key, data |-> c.data, ret |-> c.ret]

\* What the caller of getCachedData receives.
Received(g) == IF g.kind = "value" THEN g.body ELSE JsNull

\* The commands a helper sends to redisClient after the test of the flag on
\* its first line.
SendsAfterGuard(command) == IF ~isRedisConnected THEN <<>> ELSE <<command>>

\* The command invalidateCache sends once redisClient.keys has answered,
\* lines 110-113.
SendsAfterKeys(keys) == IF keys # {} THEN <<"del">> ELSE <<>>

outsideHelpers == <<dbvars, now, bulkvars, commits, rq, quotavars, uservars, metric, health, alerts, usageMap, usageSeen, gq>>

\* await setCachedData(key, data, ttl)
HelperSet(key, data, ok) ==
    LET s == SetCachedData(key, data, ok) IN
    /\ redisClient = "client"
    /\ rt.pc = "done"
    /\ cache' = s.store
    /\ rt' = [NoCall EXCEPT !.op = "set", !.key = key, !.data = data,
                            !.ret = (s.kind = "true"),
                            !.threw = (isRedisConnected /\ s.kind = "false"),
                            !.avail = isRedisConnected, !.prev = Prev(rt),
                            !.sent = SendsAfterGuard("setEx")]
    /\ UNCHANGED <<isRedisConnected, redisClient, lastEvent, ipc, outsideHelpers>>

\* await getCachedData(key)
HelperGet(key, ok) ==
    LET g == GetCachedData(key, ok) IN
    /\ redisClient = "client"
    /\ rt.pc = "done"
    /\ rt' = [NoCall EXCEPT !.op = "get", !.key = key, !.got = Received(g),
                            !.threw = (isRedisConnected /\ ~ok),
                            !.avail = isRedisConnected, !.prev = Prev(rt),
                            !.sent = SendsAfterGuard("get")]
    /\ UNCHANGED <<cachevars, outsideHelpers>>

\* invalidateCache(pattern) up to its second await: the test of the flag and
\* redisClient.keys(pattern).
HelperInvalidate(pattern, ok) ==
    LET found == InvalidateKeys(pattern, ok) IN
    /\ redisClient = "client"
    /\ rt.pc = "done"
    /\ rt' = [NoCall EXCEPT !.op = "invalidate", !.key = pattern,
                            !.threw = (isRedisConnected /\ ~ok),
                            !.avail = isRedisConnected, !.prev = Prev(rt),
                            !.sent = SendsAfterGuard("keys"),
                            !.found = found.keys,
                            !.pc = IF found.kind = "keys" /\ found.keys # {}
                                   THEN "del" ELSE "done"]
    /\ UNCHANGED <<cachevars, outsideHelpers>>

\* invalidateCache(pattern) after redisClient.keys answered with keys:
\* redisClient.del(keys), lines 111-113.
HelperInvalidateDel(ok) ==
    /\ rt.pc = "del"
    /\ cache' = InvalidateDel(rt.found, ok).store
    /\ rt' = [rt EXCEPT !.pc = "done", !.found = {},
                        !.threw = ~ok,
                        !.sent = @ \o SendsAfterKeys(rt.found),
                        !.blind = ~isRedisConnected /\ SendsAfterKeys(rt.found) # <<>>]
    /\ UNCHANGED <<isRedisConnected, redisClient, lastEvent, ipc, outsideHelpers>>

\* The backend drops an entry whose TTL has run out.
HelperExpire(k) ==
    /\ k \in DOMAIN cache
    /\ rt.pc = "done"
    /\ cache' = [x \in DOMAIN cache \ {k} |-> cache[x]]
    /\ rt' = [NoCall EXCEPT !.op = "expire", !.key = k, !.prev = Prev(rt)]
    /\ UNCHANGED <<isRedisConnected, redisClient, lastEvent, ipc, outsideHelpers>>

(***************************************************************************)
(* The store the admin interface starts on.                                *)
(***************************************************************************)
AccessRecord == [type |-> "admin_access", action |-> Null, affected |-> 0]

User(role, isAdmin, parent, owned, log) ==
    [role |-> role, isAdmin |-> isAdmin, kidzcoinBalance |-> 250, dollarBalance |-> 5,
     isSuspended |-> FALSE, isBanned |-> FALSE, suspendedUntil |-> Null,
     suspensionReason |-> Null, banReason |-> Null, parentId |-> parent,
     assignedCards |-> owned, activities |-> log]

InitStore ==
    /\ users = [id \in UserIds |->
                  CASE id = "m" -> User("master", TRUE, Null, {}, <<AccessRecord, AccessRecord>>)
                    [] id = "a" -> User("admin", TRUE, Null, {}, <<AccessRecord, AccessRecord>>)
                    [] id = "u" -> User("user", FALSE, "gone", {"c1", "c9"}, <<>>)]
    /\ cards = [id \in {"c1", "c2"} |->
                  IF id = "c1"
                  THEN [assignedTo |-> "u", isInMarketplace |-> TRUE]
                  ELSE [assignedTo |-> "gone", isInMarketplace |-> TRUE]]
    /\ pendingActions = [id \in {"p1", "p2", "p3"} |->
                  CASE id = "p1" -> [status |-> "pending", expiresAt |-> 1, createdAt |-> 0]
                    [] id = "p2" -> [status |-> "pending", expiresAt |-> 3, createdAt |-> 0]
                    [] id = "p3" -> [status |-> "approved", expiresAt |-> 0, createdAt |-> -2]]
    /\ listings = [id \in {"l1", "l2"} |->
                  IF id = "l1"
                  THEN [status |-> "active", expiresAt |-> 1, cardId |-> "c1"]
                  ELSE [status |-> "sold", expiresAt |-> 0, cardId |-> "c2"]]
    /\ trades = [id \in {"t1"} |-> [status |-> "pending"]]

(***************************************************************************)
(* The rate limiters, lines 123-143.  rateLimit() counts each request that *)
(* skip() does not exempt under keyGenerator(req) and answers 429 once the *)
(* count of the window exceeds max(req).  Every admin route places its     *)
(* limiter before authMiddleware.verifyToken (lines 283, 534, 873, 1108,   *)
(* 1311, 1552, 1852), so req.user is not set when the limiter runs.        *)
(***************************************************************************)
GetMax == 200           \* getLimiter's ceiling
PostMax == 100          \* postLimiter's ceiling
ExemptMax == 10000      \* the ceiling of the test identity
AdminFactor == 5        \* max * 5 for a privileged req.user

Undefined == "undefined"
Limiters == {"get", "post"}
ClientIp == "ip1"
Callers == {"m", "a", "u"}

Ceiling(l) == IF l = "get" THEN GetMax ELSE PostMax

\* The request as the limiter sees it: the token names the caller, req.user
\* is whatever the middleware before the limiter has set.
Req(ip, by, reqUser) == [ip |-> ip, token |-> by, user |-> reqUser]

\* req.user?._id
OptId(reqUser) == IF reqUser.id = Null THEN Undefined ELSE reqUser.id

\* req.user?.isAdmin || req.user?.role === 'master'
Privileged(reqUser) == reqUser.isAdmin \/ reqUser.role = "master"

\* The max option, lines 125-131.
Max(req, max) ==
    IF req.ip = qenv.TEST_IP \/ OptId(req.user) = qenv.ADMIN_USER_ID
    THEN ExemptMax
    ELSE IF Privileged(req.user) THEN max * AdminFactor ELSE max

\* The keyGenerator option, line 135.
KeyGenerator(req) ==
    <<"admin", req.ip, IF OptId(req.user) = Undefined THEN "anonymous" ELSE OptId(req.user)>>

\* The skip option, lines 136-139.
Skip(req) == Privileged(req.user)

\* The hits a limiter's store holds for a key.
Hits(l, key) == IF key \in DOMAIN hits[l] THEN hits[l][key] ELSE 0

NoQuota == [limiter |-> Null, by |-> Null, verdict |-> Null, total |-> 0,
            max |-> 0, first |-> FALSE]

\* One request reaching limiter l of an admin route: the limiter is the
\* first middleware that looks at req.user, and nothing has set it.  The
\* model loads one limiter at a time: the other one's window is empty.
Count(l, by) ==
    LET req == Req(ClientIp, by, NoUser)
        key == KeyGenerator(req)
        total == Hits(l, key) + 1
        max == Max(req, Ceiling(l))
    IN
    /\ Hits(l, key) < Ceiling(l) + MaxOver
    /\ \A o \in Limiters \ {l} : hits[o] = <<>>
    /\ IF Skip(req)
       THEN /\ hits' = hits
            /\ qlast' = [limiter |-> l, by |-> by, verdict |-> "next",
                         total |-> Hits(l, key), max |-> max, first |-> by \notin callers[l]]
       ELSE /\ hits' = [hits EXCEPT ![l] =
                          [k \in DOMAIN hits[l] \cup {key} |-> IF k = key THEN total ELSE hits[l][k]]]
            /\ qlast' = [limiter |-> l, by |-> by,
                         verdict |-> IF total > max THEN "429" ELSE "next",
                         total |-> total, max |-> max, first |-> by \notin callers[l]]
    /\ callers' = [callers EXCEPT ![l] = @ \cup {by}]

\* The limiter on its own: nothing else of the request is followed.
Limit(l, by) ==
    /\ Count(l, by)
    /\ UNCHANGED <<qenv, outsideQuota>>

\* The window of limiter l ends: its store is emptied.
WindowReset(l) ==
    /\ hits[l] # <<>>
    /\ hits' = [hits EXCEPT ![l] = <<>>]
    /\ callers' = [callers EXCEPT ![l] = {}]
    /\ UNCHANGED <<qenv, qlast, outsideQuota>>

(***************************************************************************)
(* The usage counters of src/unnamed/part_011, lines 8-28.  A call of      *)
(* incrementUsage runs from its first statement to its return without an   *)
(* await, so concurrent calls take their turns one after the other.        *)
(***************************************************************************)
MaxUsage == 3       \* incrementUsage calls

UsageKey(userId, feature) == <<userId, feature>>
UsageKeys == {UsageKey("u", "default")}

\* getUsage(userId, feature)
getUsage(userId, feature) ==
    IF UsageKey(userId, feature) \in DOMAIN usageMap
    THEN usageMap[UsageKey(userId, feature)] ELSE 0

outsideUsage == <<dbvars, now, bulkvars, cachevars, commits, rq, quotavars, uservars,
                  rt, metric, health, alerts, gq>>

\* incrementUsage(userId, feature)
incrementUsage(userId, feature) ==
    LET key == UsageKey(userId, feature)
        current == getUsage(userId, feature)
    IN
    /\ Len(usageSeen) < MaxUsage
    /\ usageMap' = [k \in DOMAIN usageMap \cup {key} |->
                        IF k = key THEN current + 1 ELSE usageMap[k]]
    /\ usageSeen' = Append(usageSeen, [key |-> key, count |-> current + 1])
    /\ UNCHANGED outsideUsage

(***************************************************************************)
(* PUT /user/:id, lines 1311-1547, and the admin gate as a middleware of   *)
(* its own, lines 178-258.  A write made outside the session to a document *)
(* the session has written waits for the session; the model applies it to  *)
(* the store and to the staged copy at once, which leaves the same store   *)
(* when the session ends.  A write made outside the session to a document  *)
(* the session writes only later makes that later write fail with a write  *)
(* conflict.  The gate's setImmediate callback (lines 225-247) is taken    *)
(* where the gate schedules it.                                            *)
(***************************************************************************)
UserActions == {"suspend", "activate", "ban", "unban", "updateBalance",
                "resetPassword", "updateRole"}
NoNumber == -1          \* a number the body does not carry

UserBody(action, newRole, kidz) ==
    [action |-> action, newRole |-> newRole, kidzcoinBalance |-> kidz]

\* The request bodies the model sends.
UserInputs ==
    {UserBody(a, Null, NoNumber) : a \in {"suspend", "activate", "ban", "delete"}}
    \cup {UserBody("updateRole", r, NoNumber) : r \in {"user", "master"}}

TargetIds == UserIds \cup {"x"}

\* The validators of the route, lines 1312-1319.
UserValid(body) ==
    /\ body.action \in UserActions
    /\ body.newRole = Null \/ body.newRole \in {"user", "admin", "parent"}
    /\ body.kidzcoinBalance = NoNumber \/ body.kidzcoinBalance >= 0

\* The switch over the action, lines 1378-1442: the fields to $set.
UpdatesOf(body, target) ==
    CASE body.action = "suspend" ->
            [isSuspended |-> TRUE, suspendedUntil |-> Null,
             suspensionReason |-> "Account suspended by admin"]
      [] body.action = "activate" ->
            [isSuspended |-> FALSE, suspendedUntil |-> Null, suspensionReason |-> Null]
      [] body.action = "ban" ->
            [isBanned |-> TRUE, banReason |-> "Account banned by admin"]
      [] body.action = "unban" -> [isBanned |-> FALSE, banReason |-> Null]
      [] body.action = "updateBalance" ->
            IF body.kidzcoinBalance # NoNumber
            THEN [kidzcoinBalance |-> IF body.kidzcoinBalance < 0 THEN 0
                                      ELSE body.kidzcoinBalance]
            ELSE EmptyDoc
      [] body.action = "updateRole" ->
            IF body.newRole # Null /\ body.newRole # target.role
            THEN [role |-> body.newRole,
                  isAdmin |-> body.newRole \in {"admin", "master"}]
            ELSE EmptyDoc
      [] OTHER -> EmptyDoc

\* User.updateOne({ _id: id }, { $set: upd })
UpdateOne(coll, id, upd) ==
    IF id \in DOMAIN coll THEN [coll EXCEPT ![id] = ApplySet(@, upd)] ELSE coll

\* The audit record of a single-user action, lines 1469-1481.
UserAuditRecord(req) ==
    [type |-> "admin_action", action |-> req.action, affected |-> 0,
     details |-> req.updates, previousValues |-> req.previousValues]

\* The previousValues of the action log, lines 1459-1465, from the target
\* as findById returned it.
PreviousValues(targetUser) ==
    [isSuspended |-> targetUser.isSuspended, isBanned |-> targetUser.isBanned,
     role |-> targetUser.role, kidzcoinBalance |-> targetUser.kidzcoinBalance,
     dollarBalance |-> targetUser.dollarBalance]

DeniedRecord == [type |-> "admin_access_denied", action |-> Null, affected |-> 0]

NoUReq == [by |-> Null, role |-> Null, id |-> Null, action |-> Null,
           updates |-> EmptyDoc, previousValues |-> EmptyDoc, notified |-> Null]

\* WriteActivity as it would be if the session wrote back the whole array it
\* read instead of appending to it: the open session never sees the record.
WriteActivityOverwritten(id, rec) ==
    /\ users' = PushActivity(users, id, rec)
    /\ utxn' = utxn

\* A write to a user's activities made outside every session.
WriteActivity(id, rec) ==
    /\ users' = PushActivity(users, id, rec)
    /\ utxn' = IF utxn = NoTxn THEN utxn
               ELSE [utxn EXCEPT !.users = PushActivity(@, id, rec),
                                 !.conflict = @ \/ (/\ upc = "audit" /\ id = ureq.by
                                                    /\ ureq.id # ureq.by)]

\* Handler entry up to the update of the target: the gate has let the
\* request through; the session is started, the body validated, the target
\* read, the permissions checked, the updates built and staged.
UserStart(by, id, body) ==
    /\ upc = "idle"
    /\ nput < MaxPuts
    /\ RequireAdminOrMaster(by) = "next"
    /\ nput' = nput + 1
    /\ LET req == [NoUReq EXCEPT !.by = by, !.role = VerifyToken(by).role, !.id = id,
                                 !.action = body.action]
           early(status, message) ==
            /\ upc' = "done"
            /\ ureq' = req
            /\ ures' = Respond(status, message)
            /\ utxn' = [state |-> "open", users |-> users, conflict |-> FALSE]
       IN
       IF ~UserValid(body) THEN early(400, "Validation failed")
       ELSE IF id \notin DOMAIN users THEN early(404, "User not found")
       ELSE IF users[id].role = "master" /\ VerifyToken(by).role # "master"
            THEN early(403, "Cannot modify master users")
       ELSE IF body.action = "updateRole" /\ body.newRole = "master"
                /\ VerifyToken(by).role # "master"
            THEN early(403, "Only master users can create master accounts")
       ELSE IF id = by /\ body.action \in {"suspend", "ban", "updateRole"}
            THEN early(403, "Cannot perform this action on your own account")
       ELSE /\ upc' = "audit"
            /\ ureq' = [req EXCEPT !.updates = UpdatesOf(body, users[id]),
                                   !.previousValues = PreviousValues(users[id])]
            /\ ures' = ures
            /\ utxn' = [state |-> "open", conflict |-> FALSE,
                        users |-> UpdateOne(users, id, UpdatesOf(body, users[id]))]
    /\ UNCHANGED <<users, cache, commits, gres, outsideUser>>

\* The $push of the audit record to the acting admin's activities; it is
\* refused, and the catch block taken, when the admin's document was written
\* outside the session since the transaction began.
UserAudit ==
    /\ upc = "audit"
    /\ ~utxn.conflict
    /\ utxn' = [utxn EXCEPT !.users = PushActivity(@, ureq.by, UserAuditRecord(ureq))]
    /\ upc' = "notify"
    /\ UNCHANGED <<users, cache, commits, ureq, ures, nput, gres, outsideUser>>

\* UserNotify as it would be without the try/catch around notifyUser: the
\* rejection reaches the handler's catch block.
UserNotifyUncaught(ok) ==
    /\ upc = "notify"
    /\ ureq' = [ureq EXCEPT !.notified = IF ok THEN "sent" ELSE "failed"]
    /\ IF ok
       THEN upc' = "commit" /\ UNCHANGED <<ures, utxn>>
       ELSE /\ utxn' = NoTxn
            /\ ures' = Respond(500, "Server error while managing user")
            /\ upc' = "done"
    /\ UNCHANGED <<users, cache, commits, nput, gres, outsideUser>>

\* notifyUser(...): a rejection is caught and logged.
UserNotify(ok) ==
    /\ upc = "notify"
    /\ ureq' = [ureq EXCEPT !.notified = IF ok THEN "sent" ELSE "failed"]
    /\ upc' = "commit"
    /\ UNCHANGED <<users, cache, commits, ures, utxn, nput, gres, outsideUser>>

\* session.commitTransaction().
UserCommit ==
    /\ upc = "commit"
    /\ users' = utxn.users
    /\ utxn' = NoTxn
    /\ commits' = commits + 1
    /\ upc' = "invalidate"
    /\ UNCHANGED <<cache, ureq, ures, nput, gres, outsideUser>>

\* The three invalidateCache calls of lines 1513-1517, then the response.
UserInvalidate(ok) ==
    /\ upc = "invalidate"
    /\ LET keys == UNION {InvalidateKeys(<<"admin", p>>, ok).keys :
                            p \in {"users", "analytics", "system"}}
       IN cache' = InvalidateDel(keys, ok).store
    /\ upc' = "done"
    /\ ures' = Respond(200, "completed successfully")
    /\ UNCHANGED <<users, commits, ureq, utxn, nput, gres, outsideUser>>

\* An awaited store call rejects: the catch block aborts and answers 500.
UserFail ==
    /\ upc \in {"audit", "commit"}
    /\ utxn' = NoTxn
    /\ ures' = Respond(500, "Server error while managing user")
    /\ upc' = "done"
    /\ UNCHANGED <<users, cache, commits, ureq, nput, gres, outsideUser>>

\* The finally block: session.endSession(), and the request is over.
UserEnd ==
    /\ upc = "done"
    /\ utxn' = NoTxn
    /\ upc' = "idle"
    /\ ureq' = NoUReq
    /\ ures' = NoRes
    /\ UNCHANGED <<users, cache, commits, nput, gres, outsideUser>>

\* A request to an admin route, followed up to the gate's answer.  ok tells
\* whether the gate's awaited store call succeeds, logged whether the write
\* of its setImmediate callback does; the answer keeps whether that write
\* was made while a PUT /user/:id held its transaction open.
AdminGate(by, ok, logged) ==
    /\ Len(gres) < MaxGates
    /\ LET code == IF ok THEN RequireAdminOrMaster(by) ELSE "VERIFICATION_ERROR" IN
        /\ gres' = Append(gres, [by |-> by, code |-> code,
                                 logged |-> IF code # "next" \/ ~logged THEN "no"
                                            ELSE IF utxn = NoTxn THEN "alone"
                                            ELSE "during"])
        /\ IF code = "INSUFFICIENT_PRIVILEGES"
           THEN WriteActivity(by, DeniedRecord)
           ELSE IF code = "next" /\ logged
           THEN WriteActivity(by, AccessRecord)
           ELSE UNCHANGED <<users, utxn>>
    /\ UNCHANGED <<cache, commits, upc, ureq, ures, nput, outsideUser>>

(***************************************************************************)
(* A GET request followed through the whole chain of its route: the cache  *)
(* middleware where the route has one (lines 534, 873, 1108), getLimiter,  *)
(* verifyToken, the admin gate, the validators and the handler.  One       *)
(* request is followed at a time, from its arrival to its response; the    *)
(* gate's setImmediate callback is taken with the request.                 *)
(***************************************************************************)
MaxGets == 2        \* GET requests followed

MwRoutes == {"analytics", "system", "transactions"}
ChainRoutes == MwRoutes \cup InlineRoutes

\* The validators of the route; GET /system has none (line 873).
ChainValid(route, q) == route = "system" \/ QueryValid(q)

NoGetPrev == [route |-> Null, by |-> Null, q |-> Null, key |-> <<>>, status |-> 0,
              source |-> "none", stored |-> FALSE, body |-> NoBody]
NoGet == [n |-> 0, route |-> Null, by |-> Null, q |-> Null, stages |-> <<>>,
          key |-> <<>>, status |-> 0, source |-> "none", stored |-> FALSE,
          avail |-> FALSE, backend |-> FALSE, kept |-> FALSE, hit |-> FALSE,
          body |-> NoBody, prev |-> NoGetPrev]
GetPrev(g) == [route |-> g.route, by |-> g.by, q |-> g.q, key |-> g.key,
               status |-> g.status, source |-> g.source, stored |-> g.stored,
               body |-> g.body]

\* The middleware in front of the limiter: the cache middleware, which runs
\* with req.user not set, or none.
FirstMiddleware(route, q, ok) ==
    IF route \in MwRoutes THEN CacheMiddleware(NoUser, route, q, ok)
    ELSE [kind |-> "next", wrapped |-> FALSE, key |-> <<>>, got |-> Miss]

\* The stages the request has passed when the limiter is reached.
FirstStages(route, mw) ==
    IF route \in MwRoutes
    THEN <<"cacheMiddleware">> \o (IF mw.key # <<>> THEN <<"lookup">> ELSE <<>>)
    ELSE <<>>

\* GET route?q by the caller `by`.  okGet and okSet tell whether the cache
\* backend answers the get and the setEx, gateOk whether the store answers
\* the gate, dbok whether it answers the handler.  The request remembers
\* whether the cache was available and answering, and whether the entry the
\* request before stored was still there when it arrived.
Get(route, by, q, okGet, gateOk, dbok, okSet) ==
    LET mw == FirstMiddleware(route, q, okGet)
        first == FirstStages(route, mw)
        code == IF gateOk THEN RequireAdminOrMaster(by) ELSE "VERIFICATION_ERROR"
        key == IF route \in InlineRoutes THEN InlineKey(route, q) ELSE mw.key
        g == IF route \in InlineRoutes THEN GetCachedData(key, okGet) ELSE mw.got
        caches == route \in InlineRoutes \/ mw.wrapped
        s == SetCachedData(key, FreshBody, okSet)
        base == [NoGet EXCEPT !.n = gq.n + 1, !.route = route, !.by = by, !.q = q,
                              !.avail = isRedisConnected,
                              !.backend = (okGet /\ okSet),
                              !.kept = (gq.stored /\ gq.key \in DOMAIN cache),
                              !.prev = GetPrev(gq)]
    IN
    /\ gq.n < MaxGets
    /\ IF mw.kind = "hit"
       THEN /\ gq' = [base EXCEPT !.stages = first, !.key = mw.key, !.status = 200,
                                  !.source = "cache", !.hit = TRUE, !.body = mw.got.body]
            /\ UNCHANGED <<users, cache, hits, qlast, callers>>
       ELSE /\ Count("get", by)
            /\ IF qlast'.verdict = "429"
               THEN /\ gq' = [base EXCEPT !.stages = first \o <<"limiter">>, !.status = 429]
                    /\ UNCHANGED <<users, cache>>
               ELSE IF code # "next"
               THEN /\ gq' = [base EXCEPT
                                !.stages = first \o <<"limiter", "verifyToken", "gate">>,
                                !.status = IF code = "VERIFICATION_ERROR" THEN 500 ELSE 403]
                    /\ users' = IF code = "INSUFFICIENT_PRIVILEGES"
                                THEN PushActivity(users, by, DeniedRecord) ELSE users
                    /\ cache' = cache
               ELSE /\ users' = PushActivity(users, by, AccessRecord)
                    /\ IF ~ChainValid(route, q)
                       THEN /\ gq' = [base EXCEPT
                                        !.stages = first \o <<"limiter", "verifyToken", "gate",
                                                              "handler">>,
                                        !.status = 400]
                            /\ cache' = cache
                       ELSE IF route \in InlineRoutes /\ g.kind = "value"
                       THEN /\ gq' = [base EXCEPT
                                        !.stages = first \o <<"limiter", "verifyToken", "gate",
                                                              "handler", "lookup">>,
                                        !.key = key, !.status = 200, !.source = "cache",
                                        !.hit = TRUE, !.body = g.body]
                            /\ cache' = cache
                       ELSE IF ~dbok
                       THEN /\ gq' = [base EXCEPT
                                        !.stages = first \o <<"limiter", "verifyToken", "gate",
                                                              "handler">>
                                                   \o (IF route \in InlineRoutes
                                                       THEN <<"lookup">> ELSE <<>>),
                                        !.key = key, !.status = 500]
                            /\ cache' = cache
                       ELSE /\ gq' = [base EXCEPT
                                        !.stages = first \o <<"limiter", "verifyToken", "gate",
                                                              "handler">>
                                                   \o (IF route \in InlineRoutes
                                                       THEN <<"lookup">> ELSE <<>>),
                                        !.key = key, !.status = 200, !.source = "store",
                                        !.stored = (caches /\ s.kind = "true"),
                                        !.body = FreshBody]
                            /\ cache' = IF caches THEN s.store ELSE cache
    /\ UNCHANGED <<cards, pendingActions, listings, trades, now, bulkvars,
                   isRedisConnected, redisClient, lastEvent, ipc, commits, rq, qenv,
                   uservars, rt, metric, health, alerts, usageMap, usageSeen>>

(***************************************************************************)
(* GET /logs, lines 1913-1950: the level of a log entry.                   *)
(***************************************************************************)
LogLevel(activity) ==
    LET l1 == IF activity.type = "admin_access_denied" THEN "warning" ELSE "info"
        l2 == IF activity.action \in {"ban", "suspend"} THEN "warning" ELSE l1
        l3 == IF activity.action = "systemMaintenance" THEN "critical" ELSE l2
        l4 == IF activity.affected > 100 THEN "warning" ELSE l3
    IN IF activity.type = "admin_bulk_action" /\ activity.action = "balanceReset"
       THEN "critical" ELSE l4

AdminTypes == {"admin_action", "admin_bulk_action", "admin_access", "admin_access_denied"}

\* The entries the query builds from one user's activities.
AdminLogs(coll, id) ==
    LET acts == SelectSeq(coll[id].activities, LAMBDA x : x.type \in AdminTypes)
    IN [i \in 1..Len(acts) |->
            [admin |-> id, type |-> acts[i].type, action |-> acts[i].action,
             affected |-> acts[i].affected, level |-> LogLevel(acts[i])]]

(***************************************************************************)
(* GET /metrics of src/modules/admin-api/routes/analytics.js.  Its numbers *)
(* are IEEE 754 doubles: a double is its sign, the 53 bits of its          *)
(* significand (first bit 1, most significant first) and the exponent of   *)
(* the first bit; zero has no bits.                                        *)
(***************************************************************************)
MaxCount == 64      \* the largest period value

Precision == 53
Limb == 18          \* bits handled at a time: 3 limbs hold 54 bits
Zeros(k) == [i \in 1..k |-> 0]

\* The bits of n, most significant first, without leading zeros.
BitLength(n) == CHOOSE k \in 0..30 : n < 2^k /\ (k = 0 \/ 2^(k - 1) <= n)
FixedBits(n, k) == [i \in 1..k |-> (n \div 2^(k - i)) % 2]
IntBits(n) == FixedBits(n, BitLength(n))

RECURSIVE BitsToInt(_)
BitsToInt(b) ==
    IF b = <<>> THEN 0 ELSE 2 * BitsToInt(SubSeq(b, 1, Len(b) - 1)) + b[Len(b)]

\* b + 1 for a bit string b.
Increment(b) ==
    IF \A i \in 1..Len(b) : b[i] = 1 THEN <<1>> \o Zeros(Len(b))
    ELSE LET j == CHOOSE i \in 1..Len(b) :
                      b[i] = 0 /\ \A k \in (i + 1)..Len(b) : b[k] = 1
         IN [i \in 1..Len(b) |-> IF i < j THEN b[i] ELSE IF i = j THEN 1 ELSE 0]

\* Round to nearest, ties to even: bits start with 1, sticky tells whether
\* the exact value has more beyond them.
RoundToDouble(sign, bits, sticky, e) ==
    LET padded == IF Len(bits) <= Precision
                  THEN bits \o Zeros(Precision + 1 - Len(bits)) ELSE bits
        m == SubSeq(padded, 1, Precision)
        st == sticky \/ \E i \in (Precision + 2)..Len(padded) : padded[i] = 1
        up == padded[Precision + 1] = 1 /\ (st \/ m[Precision] = 1)
        inc == Increment(m)
    IN IF ~up THEN [sign |-> sign, m |-> m, e |-> e]
       ELSE IF Len(inc) > Precision
       THEN [sign |-> sign, m |-> SubSeq(inc, 1, Precision), e |-> e + 1]
       ELSE [sign |-> sign, m |-> inc, e |-> e]

\* The next 54 bits of r / p for r < p, and what remains.
FractionBits(r, p) ==
    LET q1 == (r * 2^Limb) \div p
        r1 == (r * 2^Limb) % p
        q2 == (r1 * 2^Limb) \div p
        r2 == (r1 * 2^Limb) % p
        q3 == (r2 * 2^Limb) \div p
        r3 == (r2 * 2^Limb) % p
    IN [bits |-> FixedBits(q1, Limb) \o FixedBits(q2, Limb) \o FixedBits(q3, Limb),
        rem |-> r3]

\* The zero bits r / p starts with, for 0 < r < p.
LeadingZeros(r, p) == CHOOSE z \in 0..30 : r * 2^(z + 1) >= p /\ r * 2^z < p

\* n / p in double arithmetic, for an integer n and an integer p > 0.
Divide(n, p) ==
    LET sign == IF n < 0 THEN -1 ELSE 1
        a == IF n < 0 THEN -n ELSE n
        lead == IntBits(a \div p)
        r == a % p
    IN IF a = 0 THEN [sign |-> 1, m |-> <<>>, e |-> 0]
       ELSE IF lead # <<>>
       THEN LET frac == FractionBits(r, p)
            IN RoundToDouble(sign, lead \o frac.bits, frac.rem # 0, Len(lead) - 1)
       ELSE LET z == LeadingZeros(r, p)
                frac == FractionBits(r * 2^z, p)
            IN RoundToDouble(sign, frac.bits, frac.rem # 0, -(z + 1))

\* d * 100 in double arithmetic, the significand taken limb by limb.
Times100(d) ==
    LET wide == <<0>> \o d.m
        lo == 100 * BitsToInt(SubSeq(wide, 2 * Limb + 1, 3 * Limb))
        mid == 100 * BitsToInt(SubSeq(wide, Limb + 1, 2 * Limb)) + lo \div 2^Limb
        top == 100 * BitsToInt(SubSeq(wide, 1, Limb)) + mid \div 2^Limb
        product == IntBits(top) \o FixedBits(mid % 2^Limb, Limb)
                                \o FixedBits(lo % 2^Limb, Limb)
    IN IF d.m = <<>> THEN d
       ELSE RoundToDouble(d.sign, product, FALSE,
                          d.e - (Precision - 1) + Len(product) - 1)

\* Math.round(d): the nearest integer, a tie going up.
MathRound(d) ==
    LET h == d.e + 2
        whole == IF d.e >= 0 THEN BitsToInt(SubSeq(d.m, 1, d.e + 1)) ELSE 0
        half == h >= 1 /\ h <= Precision /\ d.m[h] = 1
        more == \E i \in 1..Precision : i > h /\ d.m[i] = 1
    IN IF d.m = <<>> THEN 0
       ELSE IF d.sign = 1 THEN whole + (IF half THEN 1 ELSE 0)
       ELSE -(whole + (IF half /\ more THEN 1 ELSE 0))

\* calcChange(curr, prev), lines 75-78.
calcChange(curr, prev) ==
    IF prev = 0 THEN (IF curr > 0 THEN 100 ELSE 0)
    ELSE MathRound(Times100(Divide(curr - prev, prev)))

\* getTrend(change), lines 80-84.
getTrend(change) ==
    IF change > 0 THEN "up" ELSE IF change < 0 THEN "down" ELSE "neutral"

NoMetric == [path |-> "none", current |-> 0, previous |-> 0,
             value |-> 0, change |-> 0, trend |-> "neutral"]

outsideMetrics == <<dbvars, now, bulkvars, cachevars, commits, rq, quotavars, uservars, rt, health, alerts, usageMap, usageSeen, gq>>

\* GET /metrics, lines 12-123, for one of its four entries: the period
\* values the queries returned, or no pool or a failing query.  The handler
\* keeps nothing between requests, so one request is followed.
Metrics(current, previous, ok) ==
    /\ metric = NoMetric
    /\ metric' = IF ~ok
                 THEN [NoMetric EXCEPT !.path = "fallback", !.current = current,
                                       !.previous = previous]
                 ELSE LET change == calcChange(current, previous)
                      IN [path |-> "computed", current |-> current, previous |-> previous,
                          value |-> current, change |-> change, trend |-> getTrend(change)]
    /\ UNCHANGED outsideMetrics

(***************************************************************************)
(* generateSystemAlerts, lines 957-1103: the health rules in the order the *)
(* function runs them, inside its one try block.                           *)
(***************************************************************************)
Rejected == -1      \* the awaited query rejected

PendingLimit == 50
HeapCritical == 90
HeapWarning == 75
SuspendedLimit == 10
BannedLimit == 5
ReadyStateConnected == 1

RuleOrder == <<"pending", "expired", "highBalance", "memory", "moderation",
               "database", "redis", "orphaned">>

\* What the queries and probes of one run return.
HealthInputs ==
    [pendingCount : {Rejected, PendingLimit, PendingLimit + 1},
     expiredCount : {Rejected, 0, 1},
     highBalanceUsers : {Rejected, 0, 1},
     heapUsedPercent : {HeapWarning, HeapWarning + 1, HeapCritical + 1},
     suspendedCount : {Rejected, SuspendedLimit, SuspendedLimit + 1},
     bannedCount : {Rejected, BannedLimit, BannedLimit + 1},
     readyState : {0, ReadyStateConnected},
     orphanedCards : {Rejected, 0, 1}]

NoHealth == [pendingCount |-> 0, expiredCount |-> 0, highBalanceUsers |-> 0,
             heapUsedPercent |-> 0, suspendedCount |-> 0, bannedCount |-> 0,
             readyState |-> ReadyStateConnected, orphanedCards |-> 0]

Alert(rule, level) == [rule |-> rule, level |-> level]
ErrorAlert == Alert("generation", "error")

\* Whether an await of the rule rejects.
RuleThrows(h, rule) ==
    CASE rule = "pending" -> h.pendingCount = Rejected
      [] rule = "expired" -> h.expiredCount = Rejected
      [] rule = "highBalance" -> h.highBalanceUsers = Rejected
      [] rule = "moderation" -> h.suspendedCount = Rejected \/ h.bannedCount = Rejected
      [] rule = "orphaned" -> h.orphanedCards = Rejected
      [] OTHER -> FALSE

\* The alerts the rule pushes when its awaits resolve.
RuleAlerts(h, rule) ==
    CASE rule = "pending" ->
            IF h.pendingCount > PendingLimit THEN <<Alert(rule, "warning")>> ELSE <<>>
      [] rule = "expired" ->
            IF h.expiredCount > 0 THEN <<Alert(rule, "info")>> ELSE <<>>
      [] rule = "highBalance" ->
            IF h.highBalanceUsers > 0 THEN <<Alert(rule, "warning")>> ELSE <<>>
      [] rule = "memory" ->
            IF h.heapUsedPercent > HeapCritical THEN <<Alert(rule, "critical")>>
            ELSE IF h.heapUsedPercent > HeapWarning THEN <<Alert(rule, "warning")>>
            ELSE <<>>
      [] rule = "moderation" ->
            (IF h.suspendedCount > SuspendedLimit THEN <<Alert("suspended", "info")>> ELSE <<>>)
            \o (IF h.bannedCount > BannedLimit THEN <<Alert("banned", "warning")>> ELSE <<>>)
      [] rule = "database" ->
            IF h.readyState # ReadyStateConnected THEN <<Alert(rule, "critical")>> ELSE <<>>
      [] rule = "redis" ->
            IF ~isRedisConnected THEN <<Alert(rule, "warning")>> ELSE <<>>
      [] rule = "orphaned" ->
            IF h.orphanedCards > 0 THEN <<Alert(rule, "warning")>> ELSE <<>>

\* The try block from rule i on; a rejection leaves it for the catch block.
RECURSIVE RunRules(_, _, _)
RunRules(h, i, list) ==
    IF i > Len(RuleOrder) THEN list
    ELSE IF RuleThrows(h, RuleOrder[i]) THEN Append(list, ErrorAlert)
    ELSE RunRules(h, i + 1, list \o RuleAlerts(h, RuleOrder[i]))

outsideAlerts == <<dbvars, now, bulkvars, cachevars, commits, rq, quotavars, uservars,
                   rt, metric, usageMap, usageSeen, gq>>

\* generateSystemAlerts().  The function keeps nothing between calls, so one
\* call is followed.
GenerateSystemAlerts(h) ==
    /\ health = NoHealth
    /\ health' = h
    /\ alerts' = RunRules(h, 1, <<>>)
    /\ UNCHANGED outsideAlerts

\* No bulk action, read request, limiter traffic or single-user action yet.
BulkIdle ==
    /\ now = 0
    /\ txn = NoTxn
    /\ bpc = "idle"
    /\ breq = NoReq
    /\ btasks = {}
    /\ bresult = EmptyDoc
    /\ bres = NoRes
    /\ bsnap = Committed
    /\ nreq = 0
    /\ ikeys = {}
    /\ commits = 0

ReadIdle == rq = [r \in Readers |-> NoRead]

QuotaIdle ==
    /\ qenv = [TEST_IP |-> Undefined, ADMIN_USER_ID |-> Undefined]
    /\ hits = [l \in Limiters |-> <<>>]
    /\ callers = [l \in Limiters |-> {}]
    /\ qlast = NoQuota

AuxIdle ==
    /\ rt = NoCall
    /\ metric = NoMetric
    /\ health = NoHealth
    /\ alerts = <<>>
    /\ usageMap = <<>>
    /\ usageSeen = <<>>
    /\ gq = NoGet

UserIdle ==
    /\ upc = "idle"
    /\ ureq = NoUReq
    /\ ures = NoRes
    /\ utxn = NoTxn
    /\ nput = 0
    /\ gres = <<>>

BulkInit ==
    /\ InitStore
    /\ BulkIdle
    /\ ReadIdle
    /\ QuotaIdle
    /\ UserIdle
    /\ AuxIdle
    /\ \/ /\ isRedisConnected = FALSE /\ redisClient = Null /\ cache = EmptyDoc
          /\ lastEvent = "none" /\ ipc = "idle"
       \/ /\ isRedisConnected = TRUE
          /\ redisClient = "client"
          /\ lastEvent = "connect" /\ ipc = "done"
          /\ cache = [k \in {UsersKey("q1"), <<"cards", "list">>} |-> Stringify(CachedBody)]

BulkNext ==
    \/ \E by \in Requestors, body \in BulkInputs : BulkStart(by, body)
    \/ \E task \in btasks : BulkWrite(task)
    \/ BulkAudit
    \/ BulkCommit
    \/ \E ok \in BOOLEAN : BulkInvalidateKeys(ok)
    \/ \E ok \in BOOLEAN : BulkInvalidateDel(ok)
    \/ BulkFail
    \/ BulkEnd
    \/ Tick

SpecBulk == BulkInit /\ [][BulkNext]_vars

(***************************************************************************)
(* The cache next to the bulk action: read requests, the cache client's    *)
(* events and one confirmed bulk action by the master.                     *)
(***************************************************************************)
CacheBulkInputs ==
    {Body("balanceReset", "users", EmptyDoc, EmptyDoc, JsTrue),
     Body("dataExport", "all", EmptyDoc, EmptyDoc, JsTrue)}

CacheInit ==
    /\ InitStore
    /\ BulkIdle
    /\ ReadIdle
    /\ QuotaIdle
    /\ UserIdle
    /\ AuxIdle
    /\ isRedisConnected = FALSE
    /\ redisClient = Null
    /\ lastEvent = "none"
    /\ ipc = "idle"
    /\ cache = EmptyDoc

CacheNext ==
    \/ InitializeRedis
    \/ InitializeRedisReturn
    \/ InitializeRedisCatch
    \/ RedisConnect
    \/ RedisError
    \/ RedisEnd
    \/ \E k \in DOMAIN cache : CacheExpire(k)
    \/ \E r \in Readers, route \in {"users", "logs", "analytics"}, by \in Requestors,
          q \in Queries, ok \in BOOLEAN : ReadStart(r, route, by, q, ok)
    \/ \E r \in Readers, dbok \in BOOLEAN : ReadQuery(r, dbok)
    \/ \E r \in Readers, ok \in BOOLEAN : ReadStore(r, ok)
    \/ \E r \in Readers : ReadEnd(r)
    \/ \E body \in CacheBulkInputs : BulkStart("m", body)
    \/ \E task \in btasks : BulkWrite(task)
    \/ BulkAudit
    \/ BulkCommit
    \/ \E ok \in BOOLEAN : BulkInvalidateKeys(ok)
    \/ \E ok \in BOOLEAN : BulkInvalidateDel(ok)
    \/ BulkFail
    \/ BulkEnd

SpecCache == CacheInit /\ [][CacheNext]_vars

(***************************************************************************)
(* The cache helpers on their own, next to the cache client's events.      *)
(***************************************************************************)
HelperNext ==
    \/ InitializeRedis
    \/ InitializeRedisReturn
    \/ InitializeRedisCatch
    \/ RedisConnect
    \/ RedisError
    \/ RedisEnd
    \/ \E k \in HelperKeys, v \in HelperValues, ok \in BOOLEAN : HelperSet(k, v, ok)
    \/ \E k \in HelperKeys, ok \in BOOLEAN : HelperGet(k, ok)
    \/ \E p \in HelperPatterns, ok \in BOOLEAN : HelperInvalidate(p, ok)
    \/ \E ok \in BOOLEAN : HelperInvalidateDel(ok)
    \/ \E k \in HelperKeys : HelperExpire(k)

SpecHelpers == CacheInit /\ [][HelperNext]_vars

(***************************************************************************)
(* The dashboard metrics over every pair of period values.                 *)
(***************************************************************************)
MetricsNext ==
    \E current \in 0..MaxCount, previous \in 0..MaxCount, ok \in BOOLEAN :
        Metrics(current, previous, ok)

SpecMetrics == CacheInit /\ [][MetricsNext]_vars

(***************************************************************************)
(* Alert generation over every outcome of its queries, with the cache      *)
(* client connected or not.                                                *)
(***************************************************************************)
AlertsNext ==
    \/ InitializeRedis
    \/ InitializeRedisReturn
    \/ InitializeRedisCatch
    \/ RedisConnect
    \/ RedisError
    \/ \E h \in HealthInputs : GenerateSystemAlerts(h)

SpecAlerts == CacheInit /\ [][AlertsNext]_vars

(***************************************************************************)
(* GET requests through their chains, with the limiter's window empty or   *)
(* at its ceiling, next to the cache client's events and the expiry of     *)
(* entries.                                                                *)
(***************************************************************************)
ChainWindows ==
    {<<>>} \cup
    {[k \in {KeyGenerator(Req(ClientIp, "u", NoUser))} |-> n] : n \in {GetMax - 1, GetMax}}

ChainInit ==
    /\ InitStore
    /\ BulkIdle
    /\ ReadIdle
    /\ UserIdle
    /\ AuxIdle
    /\ isRedisConnected = FALSE /\ redisClient = Null /\ cache = EmptyDoc
    /\ lastEvent = "none" /\ ipc = "idle"
    /\ qenv \in [TEST_IP : {Undefined}, ADMIN_USER_ID : {Undefined, "m"}]
    /\ \E w \in ChainWindows :
          /\ hits = [l \in Limiters |-> IF l = "get" THEN w ELSE <<>>]
          /\ callers = [l \in Limiters |-> IF l = "get" /\ w # <<>> THEN {"u"} ELSE {}]
    /\ qlast = NoQuota

ChainNext ==
    \/ InitializeRedis
    \/ RedisConnect
    \/ RedisError
    \/ \E k \in DOMAIN cache : CacheExpire(k)
    \/ \E route \in ChainRoutes, by \in Callers, q \in Queries,
          okGet \in BOOLEAN, gateOk \in BOOLEAN, dbok \in BOOLEAN, okSet \in BOOLEAN :
          Get(route, by, q, okGet, gateOk, dbok, okSet)

SpecChain == ChainInit /\ [][ChainNext]_vars

(***************************************************************************)
(* The limiters under load: requests of the three callers from one         *)
(* address, under each setting of TEST_IP and ADMIN_USER_ID.               *)
(***************************************************************************)
QuotaInit ==
    /\ InitStore
    /\ BulkIdle
    /\ ReadIdle
    /\ UserIdle
    /\ AuxIdle
    /\ isRedisConnected = FALSE /\ redisClient = Null /\ cache = EmptyDoc
    /\ lastEvent = "none" /\ ipc = "idle"
    /\ qenv \in [TEST_IP : {Undefined, ClientIp}, ADMIN_USER_ID : {Undefined, "m"}]
    /\ hits = [l \in Limiters |-> <<>>]
    /\ callers = [l \in Limiters |-> {}]
    /\ qlast = NoQuota

QuotaNext ==
    \/ \E l \in Limiters, by \in Callers : Limit(l, by)
    \/ \E l \in Limiters : WindowReset(l)
    \/ \E key \in UsageKeys : incrementUsage(key[1], key[2])

SpecQuota == QuotaInit /\ [][QuotaNext]_vars

(***************************************************************************)
(* Single-user actions next to the admin gate.                             *)
(***************************************************************************)
UserInit ==
    /\ InitStore
    /\ BulkIdle
    /\ ReadIdle
    /\ QuotaIdle
    /\ UserIdle
    /\ AuxIdle
    /\ isRedisConnected = FALSE /\ redisClient = Null /\ cache = EmptyDoc
    /\ lastEvent = "none" /\ ipc = "idle"

UserNext ==
    \/ \E by \in Requestors, id \in TargetIds, body \in UserInputs : UserStart(by, id, body)
    \/ UserAudit
    \/ \E ok \in BOOLEAN : UserNotify(ok)
    \/ UserCommit
    \/ \E ok \in BOOLEAN : UserInvalidate(ok)
    \/ UserFail
    \/ UserEnd
    \/ \E by \in UserIds, ok \in BOOLEAN, logged \in BOOLEAN : AdminGate(by, ok, logged)

SpecUser == UserInit /\ [][UserNext]_vars

(***************************************************************************)
(* Properties of POST /actions, checked under SpecBulk.                    *)
(***************************************************************************)
IsPrefix(p, q) == Len(p) <= Len(q) /\ SubSeq(q, 1, Len(p)) = p

\* The running request has committed its transaction.
BulkCommitted == bpc \in {"invalidate", "del"} \/ (bpc = "done" /\ bres.status = 200)

\* The running request ended without committing.
BulkFailed == bpc = "done" /\ bres.status # 200

\* C1: a bulk action that fails after it has written to one collection and
\* before it commits leaves every collection as it was at entry; nothing a
\* running action has written is in the store before the commit.
Thm_C1_Atomicity ==
    /\ bpc \in {"work", "commit"} => Committed = bsnap
    /\ BulkFailed => Committed = bsnap /\ (txn = NoTxn \/ txn = bsnap)

\* C1 witness: a clearExpired that expired a pending action in its session
\* and failed before the listings were swept.
Wit_C1_Atomicity ==
    /\ BulkFailed
    /\ bres.status = 500
    /\ breq.action = "clearExpired"
    /\ btasks = {"expireListings"}
    /\ Field(bresult, "expiredActions") > 0

\* C3 (as claimed): no step removes or changes an audit record of any user;
\* each activities list only grows at its end.
Cex_C3_AuditAppendOnly ==
    [][\A id \in UserIds : IsPrefix(users[id].activities, users'[id].activities)]_vars

\* C6 (as claimed): a committed balanceReset leaves the balance of every
\* record whose role is 'master' unchanged, whatever the filter and requestor.
Cex_C6_MasterNeverReset ==
    (BulkCommitted /\ breq.action = "balanceReset") =>
        \A id \in UserIds :
            bsnap.users[id].role = "master" =>
                users[id].kidzcoinBalance = bsnap.users[id].kidzcoinBalance

\* C6 (amended): a balanceReset commits only for a requestor whose role is
\* 'master'; after the commit every record matching the request's filter has
\* the requested balance (10000 when 10000 or nothing was requested) and every
\* other record keeps its balance; so with filter {role:'user'} each user
\* record holds exactly 10000 and no master record is changed, while a master's
\* reset whose filter matches master records resets them too.
Thm_C6_BalanceReset ==
    (BulkCommitted /\ breq.action = "balanceReset") =>
        /\ breq.role = "master"
        /\ \A id \in UserIds :
            IF Matches(bsnap.users[id], breq.filters)
            THEN users[id].kidzcoinBalance =
                    OrDefault(breq.updates, "kidzcoinBalance", DefaultKidzCoin)
            ELSE users[id].kidzcoinBalance = bsnap.users[id].kidzcoinBalance
        /\ (breq.filters = ("role" :> Eq("user")) /\ Field(breq.updates, "kidzcoinBalance") = 10000) =>
            \A id \in UserIds :
                /\ bsnap.users[id].role = "user" => users[id].kidzcoinBalance = 10000
                /\ bsnap.users[id].role = "master" =>
                        users[id].kidzcoinBalance = bsnap.users[id].kidzcoinBalance

\* C6 witness: the scenario's reset has committed and raised a user's balance.
Wit_C6_BalanceReset ==
    /\ BulkCommitted
    /\ breq.action = "balanceReset"
    /\ breq.filters = ("role" :> Eq("user"))
    /\ Field(breq.updates, "kidzcoinBalance") = 10000
    /\ bsnap.users["u"].kidzcoinBalance # 10000
    /\ users["u"].kidzcoinBalance = 10000

\* C7 (as claimed): the store changes under a bulk action only if confirm is
\* the boolean true, and under a destructive action only for a master.
Cex_C7_Preconditions ==
    [][Committed' # Committed =>
          /\ breq.confirm = JsTrue
          /\ breq.action \in Destructive => breq.role = "master"]_vars

\* C9: after a committed clearExpired every pending action (active listing)
\* whose expiresAt is strictly before the sweep time is 'expired', every other
\* record is unchanged, and the counts returned are the numbers transitioned.
Swept(coll, s, at) == {id \in DOMAIN coll : coll[id].status = s /\ coll[id].expiresAt < at}

Thm_C9_ExpiredSweep ==
    (BulkCommitted /\ breq.action = "clearExpired") =>
        /\ \A id \in DOMAIN bsnap.pendingActions :
            pendingActions[id] =
                IF id \in Swept(bsnap.pendingActions, "pending", breq.at)
                THEN [bsnap.pendingActions[id] EXCEPT !.status = "expired"]
                ELSE bsnap.pendingActions[id]
        /\ \A id \in DOMAIN bsnap.listings :
            listings[id] =
                IF id \in Swept(bsnap.listings, "active", breq.at)
                THEN [bsnap.listings[id] EXCEPT !.status = "expired"]
                ELSE bsnap.listings[id]
        /\ Field(bresult, "expiredActions") =
                Cardinality(Swept(bsnap.pendingActions, "pending", breq.at))
        /\ Field(bresult, "expiredListings") =
                Cardinality(Swept(bsnap.listings, "active", breq.at))

\* C9 witness: a committed sweep that expired one pending action and one
\* listing and left a pending action with a later expiry pending.
Wit_C9_ExpiredSweep ==
    /\ BulkCommitted
    /\ breq.action = "clearExpired"
    /\ pendingActions["p1"].status = "expired"
    /\ pendingActions["p2"].status = "pending"
    /\ listings["l1"].status = "expired"
    /\ Field(bresult, "expiredActions") = 1
    /\ Field(bresult, "expiredListings") = 1

Thm_C10_CacheDegradation ==
    /\ \A r \in Readers :
        LET x == rq[r] IN
        /\ x.got.kind \in {"none", "null", "value"}
        /\ x.set \in {"none", "true", "false"}
        /\ (x.got.kind # "none" /\ ~x.availGet) => x.got = Miss
        /\ (x.set # "none" /\ ~x.availSet) => x.set = "false"
        /\ (x.pc = "done" /\ x.got.kind # "value") =>
                \/ x.status \in {400, 500} /\ x.fresh = NoBody
                \/ x.status = 200 /\ x.fresh # NoBody /\ x.body = x.fresh
    /\ (bpc = "done" /\ Committed # bsnap) => bres.status = 200

\* C10 witness: a GET /users whose lookup and store both met a failing or
\* unavailable backend and which answered 200 with the body it computed.
Wit_C10_CacheDegradation ==
    \E r \in Readers :
        /\ rq[r].pc = "done"
        /\ rq[r].route = "users"
        /\ redisClient = "client"
        /\ rq[r].got = Miss /\ ~rq[r].availGet
        /\ rq[r].set = "false" /\ ~rq[r].availSet
        /\ rq[r].status = 200 /\ rq[r].body = rq[r].fresh /\ rq[r].fresh # NoBody

(***************************************************************************)
(* Properties of the rate limiters, checked under SpecQuota.               *)
(***************************************************************************)
\* The caller holds a privileged role.
PrivilegedCaller(by) == users[by].isAdmin \/ users[by].role = "master"

\* The caller is the designated test identity.
TestIdentity(by) == ClientIp = qenv.TEST_IP \/ by = qenv.ADMIN_USER_ID

\* C4 (as claimed): a caller who is neither privileged nor the test identity
\* has its first request of a window allowed, and while it is the only
\* caller of the window its request is rejected exactly when it is past the
\* limiter's ceiling (200 for GET, 100 for POST).
Cex_C4_QuotaMonotonicity ==
    (qlast.limiter # Null /\ ~PrivilegedCaller(qlast.by) /\ ~TestIdentity(qlast.by)) =>
        /\ qlast.first => qlast.verdict = "next"
        /\ callers[qlast.limiter] = {qlast.by} =>
                (qlast.verdict = "429" <=> qlast.total > Ceiling(qlast.limiter))

\* C5 (as claimed): every request of a privileged caller or of the test
\* identity is allowed, however many came before it in the window, and a
\* privileged caller's request leaves the limiter's counters as they were.
Cex_C5_Exemption ==
    [][(qlast' # qlast \/ hits' # hits) =>
          /\ (PrivilegedCaller(qlast'.by) \/ TestIdentity(qlast'.by)) =>
                qlast'.verdict = "next"
          /\ PrivilegedCaller(qlast'.by) => hits' = hits]_vars

(***************************************************************************)
(* Properties of PUT /user/:id and the gate, checked under SpecUser.       *)
(***************************************************************************)
\* The records of one action in a user's log.
CountAction(coll, id, action) ==
    Cardinality({i \in DOMAIN AdminLogs(coll, id) : AdminLogs(coll, id)[i].action = action})

\* The gate has just answered a request; its answer is the last of gres'.
GateAnswered == Len(gres') = Len(gres) + 1

\* The running PUT commits.
UserCommits == upc = "commit" /\ upc' = "invalidate"

\* The running PUT has committed.
UserCommitted == upc = "invalidate" \/ (upc = "done" /\ ures.status = 200)

\* What a committing suspend or activate does, as C8 states it: the target's
\* flag is set or cleared, and the acting admin's log gains one record of
\* the action; a suspend record is reported at level 'warning'.
CommitEffect ==
    UserCommits =>
        /\ ureq.action = "suspend" =>
            /\ users'[ureq.id].isSuspended
            /\ CountAction(users', ureq.by, "suspend") = CountAction(users, ureq.by, "suspend") + 1
            /\ \A i \in DOMAIN AdminLogs(users', ureq.by) :
                    AdminLogs(users', ureq.by)[i].action = "suspend" =>
                        AdminLogs(users', ureq.by)[i].level = "warning"
        /\ ureq.action = "activate" =>
            /\ ~users'[ureq.id].isSuspended
            /\ CountAction(users', ureq.by, "activate") = CountAction(users, ureq.by, "activate") + 1

\* C8 (as claimed): a suspend commits with its audit record at 'warning';
\* every request of a suspended user that reaches the gate is answered
\* ACCOUNT_RESTRICTED (or fails in the gate's own store call); once an
\* activate of the user has committed the gate lets the user through.
Cex_C8_SuspendActivate ==
    [][/\ CommitEffect
       /\ GateAnswered =>
            LET g == gres'[Len(gres')] IN
            /\ users[g.by].isSuspended =>
                    g.code \in {"ACCOUNT_RESTRICTED", "VERIFICATION_ERROR"}
            /\ (ureq.action = "activate" /\ ureq.id = g.by /\ UserCommitted) =>
                    g.code \in {"next", "VERIFICATION_ERROR"}]_vars

\* C8 (amended): a suspend commits with its audit record at 'warning'; a
\* request of a suspended user is never let through the gate: it is
\* answered ACCOUNT_RESTRICTED when the user holds the admin or master role
\* and INSUFFICIENT_PRIVILEGES otherwise (or fails in the gate's own store
\* call); once an activate of the user has committed the gate lets the user
\* through provided the user holds the admin or master role and is not
\* banned; no suspended or banned user starts a PUT /user/:id.
Thm_C8_SuspendActivate ==
    [][/\ CommitEffect
       /\ GateAnswered =>
            LET g == gres'[Len(gres')] IN
            /\ users[g.by].isSuspended =>
                    g.code \in {IF PrivilegedCaller(g.by) THEN "ACCOUNT_RESTRICTED"
                                ELSE "INSUFFICIENT_PRIVILEGES", "VERIFICATION_ERROR"}
            /\ (/\ ureq.action = "activate" /\ ureq.id = g.by /\ UserCommitted
                /\ PrivilegedCaller(g.by) /\ ~users[g.by].isBanned) =>
                    g.code \in {"next", "VERIFICATION_ERROR"}
       /\ nput' = nput + 1 =>
            ~users[ureq'.by].isSuspended /\ ~users[ureq'.by].isBanned]_vars

\* C8 witness: the master suspended the admin and then activated it; the
\* admin's request in between was answered ACCOUNT_RESTRICTED and its
\* request after the activation was let through.
Wit_C8_SuspendActivate ==
    /\ Len(gres) = 2
    /\ gres[1].by = "a" /\ gres[1].code = "ACCOUNT_RESTRICTED"
    /\ gres[2].by = "a" /\ gres[2].code = "next"
    /\ CountAction(users, "m", "suspend") = 1
    /\ CountAction(users, "m", "activate") = 1
    /\ ureq.action = "activate" /\ ureq.id = "a" /\ upc = "done" /\ ures.status = 200
    /\ ~users["a"].isSuspended

(***************************************************************************)
(* Properties of the cache and the read routes, checked under SpecCache.   *)
(***************************************************************************)
\* C11: no entry of the cache holds a response body whose failure marker is
\* set, whatever requests ran: the 400, 403 and 500 answers of the read
\* routes never reach setCachedData.
Thm_C11_NoFailedCached ==
    \A k \in DOMAIN cache : Parse(cache[k]).success

\* C11 witness: with the cache connected and an earlier result cached, an
\* inline-caching route looked its key up, failed in its store query and
\* answered 500, and its key holds no entry.
Wit_C11_NoFailedCached ==
    \E r \in Readers :
        /\ rq[r].pc = "done" /\ rq[r].status = 500
        /\ rq[r].route \in InlineRoutes
        /\ rq[r].availGet /\ isRedisConnected
        /\ rq[r].key \notin DOMAIN cache
        /\ cache # <<>>

(***************************************************************************)
(* Properties of the cache helpers called on their own, checked under      *)
(* SpecHelpers.                                                            *)
(***************************************************************************)
\* The call is a getCachedData(K) that ran against the backend right after a
\* setCachedData(K, V, ttl) that stored V.
GetAfterSet ==
    /\ rt.op = "get" /\ rt.avail /\ ~rt.threw
    /\ rt.prev.op = "set" /\ rt.prev.ret
    /\ rt.prev.key = rt.key

\* C12: with the cache available, setCachedData(K, V, ttl) immediately
\* followed by getCachedData(K) returns a value equal to V, for every key K
\* and every JSON value V.
Thm_C12_RoundTrip ==
    (GetAfterSet /\ rt.prev.data \in JsonValues) => rt.got = rt.prev.data

Wit_C12_RoundTrip ==
    /\ GetAfterSet
    /\ rt.prev.data = JsBoolean(FALSE)
    /\ rt.got = JsBoolean(FALSE)

(***************************************************************************)
(* Properties of GET /metrics, checked under SpecMetrics.                  *)
(***************************************************************************)
\* The integer nearest to n / p for p > 0, a tie going up.
Nearest(n, p) == (2 * n + p) \div (2 * p)

\* C13: for all non-negative period values, change is
\* round(100 * (current - previous) / previous) when previous is not 0, is 0
\* with trend 'neutral' when both are 0, is 100 with trend 'up' when
\* previous is 0 and current is positive, and trend always follows the sign
\* of change.
Cex_C13_ChangePercentage ==
    metric.path = "computed" =>
        /\ metric.previous # 0 =>
              metric.change = Nearest(100 * (metric.current - metric.previous), metric.previous)
        /\ (metric.previous = 0 /\ metric.current = 0) =>
              (metric.change = 0 /\ metric.trend = "neutral")
        /\ (metric.previous = 0 /\ metric.current > 0) =>
              (metric.change = 100 /\ metric.trend = "up")
        /\ metric.trend = (IF metric.change > 0 THEN "up"
                           ELSE IF metric.change < 0 THEN "down" ELSE "neutral")

(***************************************************************************)
(* Properties of the log query, checked under SpecUser.                    *)
(***************************************************************************)
\* C14: every audit record's level follows the rule set: ban, bulk
\* balanceReset and systemMaintenance are 'critical', suspend and bulk
\* updates affecting more than 100 records are 'warning', routine admin
\* access is 'info'.
Cex_C14_AuditSeverity ==
    \A id \in DOMAIN users : \A i \in DOMAIN AdminLogs(users, id) :
        LET entry == AdminLogs(users, id)[i] IN
        /\ entry.action = "ban" => entry.level = "critical"
        /\ (entry.type = "admin_bulk_action" /\ entry.action = "balanceReset")
              => entry.level = "critical"
        /\ entry.action = "systemMaintenance" => entry.level = "critical"
        /\ entry.action = "suspend" => entry.level = "warning"
        /\ (entry.type = "admin_bulk_action" /\ entry.action = "bulkUpdate"
              /\ entry.affected > 100) => entry.level = "warning"
        /\ entry.type = "admin_access" => entry.level = "info"

(***************************************************************************)
(* Properties of generateSystemAlerts, checked under SpecAlerts.           *)
(***************************************************************************)
Thrown(h) == {i \in DOMAIN RuleOrder : RuleThrows(h, RuleOrder[i])}
Listed(a) == \E i \in DOMAIN alerts : alerts[i] = a
ErrorAlerts == {i \in DOMAIN alerts : alerts[i].level = "error"}

\* What each rule would contribute by itself, as the cache client was when
\* the list was built (the redis rule reads no query and is left out).
Contribution(h, i) ==
    IF RuleOrder[i] = "redis" THEN <<>> ELSE RuleAlerts(h, RuleOrder[i])

\* C15: when the query of one rule throws, every other rule is still
\* evaluated and contributes its alert when its threshold is crossed, and
\* the failure appears as exactly one alert of level 'error'.
Cex_C15_PartialFailure ==
    Cardinality(Thrown(health)) = 1 =>
        /\ Cardinality(ErrorAlerts) = 1
        /\ \A i \in DOMAIN RuleOrder \ Thrown(health) :
              \A k \in DOMAIN Contribution(health, i) :
                  Listed(Contribution(health, i)[k])

(***************************************************************************)
(* Properties of the notification and the audit record of PUT /user/:id,   *)
(* checked under SpecUser.                                                 *)
(***************************************************************************)
\* The audit record the running PUT has staged: the latest admin_action
\* record of the acting admin in the session.
StagedAudit ==
    LET log == SelectSeq(utxn.users[ureq.by].activities,
                         LAMBDA x : x.type = "admin_action")
    IN log[Len(log)]

\* The committed admin_action records of a user.
ActionRecords(id) ==
    SelectSeq(users[id].activities, LAMBDA x : x.type = "admin_action")

\* C16: when notifyUser throws during a single-user action the error is
\* caught: the handler goes on to the commit with the update and the audit
\* record still staged and no failure response, and once that commit is made
\* the target carries the update, the admin's log the audit record and the
\* caller the success response.
Thm_C16_NotifyAbsorbed ==
    /\ [][(upc = "notify" /\ upc' # "notify") =>
            (upc' = "commit" /\ utxn' = utxn /\ ures' = ures)]_vars
    /\ []((ureq.notified = "failed" /\ upc = "done") =>
            (ures.status = 200 =>
                /\ \A f \in DOMAIN ureq.updates : users[ureq.id][f] = ureq.updates[f]
                /\ \E i \in DOMAIN ActionRecords(ureq.by) :
                        /\ ActionRecords(ureq.by)[i].action = ureq.action
                        /\ ActionRecords(ureq.by)[i].details = ureq.updates))

Wit_C16_NotifyAbsorbed ==
    /\ ureq.notified = "failed" /\ upc = "done" /\ ures.status = 200
    /\ ureq.action = "ban" /\ ureq.id = "a"
    /\ users["a"].isBanned
    /\ CountAction(users, ureq.by, "ban") = 1

\* C17: the audit record's previousValues hold, for every field the action
\* mutates, the value the target had before the mutation.
Cex_C17_PreviousValues ==
    upc \in {"notify", "commit"} =>
        \A f \in DOMAIN StagedAudit.details :
            /\ f \in DOMAIN StagedAudit.previousValues
            /\ StagedAudit.previousValues[f] = users[ureq.id][f]

(***************************************************************************)
(* Properties of the counters, checked under SpecQuota.                    *)
(***************************************************************************)
\* The calls of incrementUsage made for a key.
UsageCalls(key) == {i \in DOMAIN usageSeen : usageSeen[i].key = key}

\* C18: for a caller who is neither privileged nor the test identity the
\* requests allowed in one window never exceed the limiter's ceiling, and no
\* increment is lost: after n incrementUsage calls for a key getUsage is n
\* and the calls have seen n distinct counts.
Cex_C18_RaceFreeCounters ==
    /\ (/\ qlast.limiter # Null /\ qlast.verdict = "next"
        /\ ~PrivilegedCaller(qlast.by) /\ ~TestIdentity(qlast.by)
        /\ callers[qlast.limiter] = {qlast.by})
            => qlast.total <= Ceiling(qlast.limiter)
    /\ \A key \in UsageKeys :
        /\ getUsage(key[1], key[2]) = Cardinality(UsageCalls(key))
        /\ \A i, j \in UsageCalls(key) :
                i # j => usageSeen[i].count # usageSeen[j].count

(***************************************************************************)
(* Properties of the appends to one actor's log, checked under SpecUser.   *)
(***************************************************************************)
\* The records of one type in a user's log.
TypeCount(coll, id, type) ==
    Cardinality({i \in DOMAIN coll[id].activities : coll[id].activities[i].type = type})

\* The gate has just written an access record for its caller.
AccessLogged == GateAnswered /\ gres'[Len(gres')].logged # "no"

FlagFollowsEvents == isRedisConnected <=> lastEvent = "connect"

\* A helper entered while the flag was false has returned, sent nothing to
\* the backend and answered as it does without a cache.
GuardedAtEntry ==
    (rt.op \in {"get", "set", "invalidate"} /\ ~rt.avail) =>
        /\ rt.sent = <<>>
        /\ rt.pc = "done"
        /\ ~rt.threw
        /\ rt.op = "get" => rt.got = JsNull
        /\ rt.op = "set" => ~rt.ret

\* C20: the flag is true exactly when the most recent connection event was
\* 'connect' (false after 'error', 'end', a failed initialisation and before
\* any initialisation), and getCachedData, setCachedData and invalidateCache
\* called while the flag is false return without sending a command to the
\* cache backend.
Thm_C20_AvailabilityFlag ==
    /\ FlagFollowsEvents
    /\ GuardedAtEntry

\* The connection was lost with an entry in the backend, and a get of that
\* entry returned null without asking the backend.
Wit_C20_AvailabilityFlag ==
    /\ lastEvent \in {"error", "end", "failed"}
    /\ ~isRedisConnected
    /\ rt.op = "get" /\ ~rt.avail
    /\ rt.key \in DOMAIN cache
    /\ rt.got = JsNull /\ rt.sent = <<>>

(***************************************************************************)
(* C21: the limiter comes before the cache.                                *)
(***************************************************************************)
\* Every cache lookup of the request comes after the limiter counted it.
LimiterFirst ==
    \A i \in DOMAIN gq.stages :
        gq.stages[i] = "lookup" => \E j \in 1..(i - 1) : gq.stages[j] = "limiter"

\* C21: on every cached GET route the limiter has counted and admitted the
\* request before any cache lookup is made, and a request the limiter
\* rejects is not answered from the cache.
Thm_C21_QuotaBeforeCache ==
    /\ LimiterFirst
    /\ gq.hit => (qlast.limiter = "get" /\ qlast.by = gq.by /\ qlast.verdict = "next")
    /\ gq.status = 429 => (~gq.hit /\ gq.source = "none" /\ gq.body = NoBody)

\* GET /users is rejected by the limiter while the cache holds the entry of
\* the very request.
Wit_C21_QuotaBeforeCache ==
    /\ gq.route = "users" /\ gq.status = 429
    /\ gq.avail
    /\ InlineKey("users", gq.q) \in DOMAIN cache

(***************************************************************************)
(* C22: cache-aside population on the routes behind cacheMiddleware.       *)
(***************************************************************************)
\* The request repeats the one before it: same route, query and actor.
Repeated ==
    /\ gq.prev.route = gq.route /\ gq.prev.q = gq.q /\ gq.prev.by = gq.by

CrossActorHit ==
    /\ gq.hit
    /\ gq.prev.stored /\ gq.prev.key = gq.key
    /\ gq.prev.by # gq.by

\* C23: every cache key a request uses carries the actor's id, and no
\* request is answered from an entry stored for another actor, on the
\* cacheMiddleware routes and on GET /users and GET /logs.
Cex_C23_PerActor ==
    /\ gq.key # <<>> => \E i \in DOMAIN gq.key : gq.key[i] = gq.by
    /\ ~CrossActorHit

(***************************************************************************)
(* C24 and C25: what a bulk update and a balance reset write.              *)
(***************************************************************************)
\* Two versions of a user record agree on everything but the activity log.
SameButLog(d1, d2) == \A f \in DOMAIN d1 \ {"activities"} : d1[f] = d2[f]

\* C24: a committed bulkUpdate on users by a requestor who is not master
\* has modified exactly the records that match the caller's filters and do
\* not have role 'master'; every other record is as it was.
Cex_C24_FiltersIntersected ==
    (/\ BulkCommitted
     /\ breq.action = "bulkUpdate" /\ breq.target = "users"
     /\ breq.role # "master") =>
        \A id \in UserIds :
            IF /\ Matches(bsnap.users[id], breq.filters)
               /\ bsnap.users[id].role # "master"
            THEN SameButLog(users[id],
                            ApplySet(bsnap.users[id], SanitizeUpdates(breq.updates)))
            ELSE SameButLog(users[id], bsnap.users[id])

\* The balance the spec has a reset write: the provided value when there is
\* one, 0 included, the default otherwise, and never a negative one.
ProvidedOrDefault(upd, f, dflt) ==
    LET v == IF f \in DOMAIN upd THEN upd[f] ELSE dflt
    IN IF v < 0 THEN 0 ELSE v

\* C25: a committed balanceReset has set both balances of each matched
\* record to the provided value, a provided 0 included, or to the default
\* (10000 and 10) when none is provided, never to a negative value.
Cex_C25_ResetValue ==
    (BulkCommitted /\ breq.action = "balanceReset") =>
        \A id \in UserIds :
            Matches(bsnap.users[id], ScopedFilters(breq)) =>
                /\ users[id].kidzcoinBalance =
                      ProvidedOrDefault(breq.updates, "kidzcoinBalance", DefaultKidzCoin)
                /\ users[id].dollarBalance =
                      ProvidedOrDefault(breq.updates, "dollarBalance", DefaultDollars)
                /\ users[id].kidzcoinBalance >= 0 /\ users[id].dollarBalance >= 0

(***************************************************************************)
(* C26: authorization failures in the activity log.                        *)
(***************************************************************************)
\* PUT /user/:id has just answered 403 because of the requestor's role.
RoleRefused ==
    /\ upc = "idle" /\ upc' = "done"
    /\ ures'.status = 403
    /\ ures'.message \in {"Cannot modify master users",
                          "Only master users can create master accounts"}

\* C26: every 403 sent for an insufficient role, by the admin gate or by the
\* permission checks of a handler, appends an 'admin_access_denied' record
\* to the requestor's activities.
Cex_C26_DenialsAudited ==
    [][/\ (GateAnswered /\ gres'[Len(gres')].code = "INSUFFICIENT_PRIVILEGES") =>
            LET by == gres'[Len(gres')].by IN
            TypeCount(users', by, "admin_access_denied")
                = TypeCount(users, by, "admin_access_denied") + 1
       /\ RoleRefused =>
            TypeCount(users', ureq'.by, "admin_access_denied")
                = TypeCount(users, ureq'.by, "admin_access_denied") + 1]_vars

\* The part of C26 that is about the admin gate alone.
GateDenialsAudited ==
    [][(GateAnswered /\ gres'[Len(gres')].code = "INSUFFICIENT_PRIVILEGES") =>
            LET by == gres'[Len(gres')].by IN
            TypeCount(users', by, "admin_access_denied")
                = TypeCount(users, by, "admin_access_denied") + 1]_vars

(***************************************************************************)
(* The maintenance sweep next to requests that delete documents.  The      *)
(* sweep reads its reference sets (lines 1737, 1744, 1752, 1760) with no   *)
(* session, before the first write of its transaction; a deletion another  *)
(* request commits after those reads and before the first write is seen by *)
(* the transaction's writes and not by the reference sets.                 *)
(***************************************************************************)
Without(coll, id) == [i \in DOMAIN coll \ {id} |-> coll[i]]

\* The sweep has read its reference sets and has written nothing yet.
SweepReadsDone ==
    /\ bpc = "work"
    /\ breq.action = "systemMaintenance"
    /\ btasks = TasksOf("systemMaintenance")

\* Another request deletes a user document.
DeleteUser(id) ==
    /\ SweepReadsDone
    /\ id \in DOMAIN users \ Requestors
    /\ users' = Without(users, id)
    /\ txn' = [txn EXCEPT !.users = Without(@, id)]
    /\ UNCHANGED <<cards, pendingActions, listings, trades, now,
                   bpc, breq, btasks, bresult, bres, bsnap, nreq, ikeys, commits,
                   isRedisConnected, redisClient, lastEvent, ipc, cache, outsideBulk>>

\* Another request deletes a card document.
DeleteCard(id) ==
    /\ SweepReadsDone
    /\ id \in DOMAIN cards
    /\ cards' = Without(cards, id)
    /\ txn' = [txn EXCEPT !.cards = Without(@, id)]
    /\ UNCHANGED <<users, pendingActions, listings, trades, now,
                   bpc, breq, btasks, bresult, bres, bsnap, nreq, ikeys, commits,
                   isRedisConnected, redisClient, lastEvent, ipc, cache, outsideBulk>>

SweepNext ==
    \/ \E by \in Requestors, body \in BulkInputs : BulkStart(by, body)
    \/ \E task \in btasks : BulkWrite(task)
    \/ BulkAudit
    \/ BulkCommit
    \/ \E ok \in BOOLEAN : BulkInvalidateKeys(ok)
    \/ \E ok \in BOOLEAN : BulkInvalidateDel(ok)
    \/ BulkFail
    \/ BulkEnd
    \/ Tick
    \/ \E id \in UserIds : DeleteUser(id)
    \/ \E id \in {"c1", "c2"} : DeleteCard(id)

SpecSweep == BulkInit /\ [][SweepNext]_vars

\* The four referential conditions of the sweep, on the committed store.
NoDanglingOwner ==
    \A c \in DOMAIN cards : cards[c].assignedTo = Null \/ cards[c].assignedTo \in DOMAIN users
NoDanglingParent ==
    \A u \in DOMAIN users : users[u].parentId = Null \/ users[u].parentId \in DOMAIN users
NoDanglingCard ==
    \A u \in DOMAIN users : users[u].assignedCards \subseteq DOMAIN cards
NoStaleMarketplace ==
    \A c \in DOMAIN cards : cards[c].isInMarketplace => c \in ActiveCards

SweepPostcondition ==
    (BulkCommitted /\ breq.action = "systemMaintenance") =>
        NoDanglingOwner /\ NoDanglingParent /\ NoDanglingCard /\ NoStaleMarketplace

\* C27 (as claimed): after a committed systemMaintenance no card is assigned
\* to a missing user, no user has a missing parent, no user lists a missing
\* card and no card is in the marketplace without an active listing, also
\* when users or cards are deleted between the sweep's reference reads and
\* its writes.  Violated under SpecSweep: a user deleted after
\* User.distinct('_id') is still in userIds, so the card assigned to that
\* user keeps its assignedTo.
Cex_C27_SweepPostcondition == SweepPostcondition

\* The sweep repaired the store it read and a reference to a document
\* deleted after the reads is left dangling.
SweepLeftDangling ==
    /\ BulkCommitted
    /\ breq.action = "systemMaintenance"
    /\ ~(NoDanglingOwner /\ NoDanglingCard)

(***************************************************************************)
(* PUT /user/:id next to the cached GET routes: the cache client is        *)
(* connected, read requests arrive before and after the mutation.          *)
(***************************************************************************)
MutateInit ==
    /\ InitStore
    /\ BulkIdle
    /\ ReadIdle
    /\ QuotaIdle
    /\ UserIdle
    /\ AuxIdle
    /\ isRedisConnected = TRUE /\ redisClient = "client" /\ cache = EmptyDoc
    /\ lastEvent = "connect" /\ ipc = "done"

\* A GET request handled while no PUT /user/:id is in progress.
GetBetween(route, by, okGet, okSet) ==
    /\ upc = "idle"
    /\ Get(route, by, "q1", okGet, TRUE, TRUE, okSet)

\* The mutations sent: a suspension and a role change, of a user and of the
\* master.
MutateInputs == {UserBody("suspend", Null, NoNumber), UserBody("updateRole", "user", NoNumber)}

MutateNext ==
    \/ \E by \in Requestors, id \in {"u", "m"}, body \in MutateInputs : UserStart(by, id, body)
    \/ UserAudit
    \/ \E ok \in BOOLEAN : UserNotify(ok)
    \/ UserCommit
    \/ \E ok \in BOOLEAN : UserInvalidate(ok)
    \/ UserFail
    \/ UserEnd
    \/ \E route \in ChainRoutes, by \in Requestors, okGet \in BOOLEAN, okSet \in BOOLEAN :
          GetBetween(route, by, okGet, okSet)

SpecMutate == MutateInit /\ [][MutateNext]_vars

\* The scopes a PUT /user/:id can change, as cache key prefixes.
MutatedScopes == {"users", "analytics", "system", "logs"}
ScopeKeys(store, scope) == KeysMatching(store, <<"admin", scope>>)

\* The step in which the handler's invalidation completes.
UserInvalidated == upc = "invalidate" /\ upc' = "done"

\* The step in which a GET request is answered 200.
GetAnswered == gq'.n = gq.n + 1 /\ gq'.status = 200

NamedScopesCleared ==
    [][UserInvalidate(TRUE) =>
          \A scope \in {"users", "analytics", "system"} : ScopeKeys(cache', scope) = {}]_vars

\* The log scope is not cleared even then.
LogScopeCleared ==
    [][UserInvalidate(TRUE) => ScopeKeys(cache', "logs") = {}]_vars

\* A GET /logs after a committed mutation answered from the entry cached
\* before it.
StaleLogRead ==
    /\ gq.route = "logs" /\ gq.hit /\ gq.status = 200
    /\ gq.body.epoch < commits
    /\ upc = "idle"

(***************************************************************************)
(* Escalation to master.                                                   *)
(***************************************************************************)
\* The user records that are masters.
Masters(coll) == {id \in DOMAIN coll : coll[id].role = "master"}

\* The step in which a bulk action of a requestor who is not a master
\* commits.
NonMasterBulkCommits == bpc = "commit" /\ bpc' = "invalidate" /\ breq.role # "master"

\* The step in which a PUT /user/:id of a requestor who is not a master
\* commits.
NonMasterPutCommits == UserCommits /\ ureq.role # "master"

\* C29 (as claimed): no request of a requestor whose role is not 'master'
\* makes a user record a master, by updateRole or by a bulkUpdate on users
\* whose updates set role.  Violated under SpecBulk: the bulkUpdate of an
\* admin with updates {role: 'master'} passes role through to $set and every
\* record that is not a master becomes one.
Cex_C29_NoEscalation ==
    [][NonMasterBulkCommits => Masters(users') \subseteq Masters(users)]_vars

\* The updateRole part: a committed PUT /user/:id of a requestor who is not
\* a master adds no master.
PutAddsNoMaster ==
    [][NonMasterPutCommits => Masters(users') \subseteq Masters(users)]_vars

\* An admin's bulk update has committed and the admin is a master now.
AdminBecameMaster ==
    /\ BulkCommitted
    /\ breq.role = "admin" /\ breq.action = "bulkUpdate"
    /\ users[breq.by].role = "master"

(***************************************************************************)
(* The two mutating handlers, PUT /user/:id and POST /actions, one request *)
(* at a time, followed from the start of the session to the finally block. *)
(***************************************************************************)
\* The bodies sent to POST /actions: one for every way out of the handler.
TerminateBulkInputs ==
    {Body(a, Null, EmptyDoc, EmptyDoc, c) :
        a \in {"systemMaintenance", "clearExpired", "dropAll"}, c \in {JsTrue, JsFalse}}
    \cup {Body("bulkUpdate", t, EmptyDoc, u, JsTrue) :
            t \in {"users", "all", Null}, u \in {EmptyDoc, "kidzcoinBalance" :> 500}}

\* The bodies sent to PUT /user/:id.
TerminateUserInputs ==
    {UserBody("suspend", Null, NoNumber)}
    \cup {UserBody("updateRole", r, NoNumber) : r \in {"user", "master"}}

TerminateNext ==
    \/ \E by \in Requestors, body \in TerminateBulkInputs : upc = "idle" /\ BulkStart(by, body)
    \/ \E task \in btasks : BulkWrite(task)
    \/ BulkAudit
    \/ BulkCommit
    \/ \E ok \in BOOLEAN : BulkInvalidateKeys(ok)
    \/ \E ok \in BOOLEAN : BulkInvalidateDel(ok)
    \/ BulkFail
    \/ BulkEnd
    \/ \E by \in Requestors, id \in TargetIds, body \in TerminateUserInputs :
          bpc = "idle" /\ UserStart(by, id, body)
    \/ UserAudit
    \/ \E ok \in BOOLEAN : UserNotify(ok)
    \/ UserCommit
    \/ \E ok \in BOOLEAN : UserInvalidate(ok)
    \/ UserFail
    \/ UserEnd

SpecTerminate == BulkInit /\ [][TerminateNext]_vars

\* Steps of the two handlers.
BulkResponds == bres' # bres /\ bres' # NoRes
UserResponds == ures' # ures /\ ures' # NoRes
BulkCommits == bpc = "commit" /\ bpc' = "invalidate"
BulkAborts == BulkResponds /\ bres'.status = 500
UserAborts == UserResponds /\ ures'.status = 500
BulkEnds == bpc = "done" /\ bpc' = "idle"
UserEnds == upc = "done" /\ upc' = "idle"

\* No response is sent on a request that was answered already, and the
\* finally block is reached with exactly one sent.
OneResponse ==
    /\ BulkResponds => bres = NoRes
    /\ UserResponds => ures = NoRes
    /\ BulkEnds => bres # NoRes
    /\ UserEnds => ures # NoRes

\* The store changes in the commit step alone, and a transaction that has
\* committed is answered 200: every other answer leaves no write applied.
CommittedOrUntouched ==
    /\ Committed' # Committed => (BulkCommits \/ UserCommits)
    /\ (BulkResponds /\ bres'.status # 200) => (bpc \in {"idle", "work", "commit"} /\ Committed' = Committed)
    /\ (UserResponds /\ ures'.status # 200) => (upc \in {"idle", "audit", "commit"} /\ Committed' = Committed)
    /\ BulkEnds => (bres.status = 200 \/ Committed = bsnap)

\* The finally block leaves no transaction open.
SessionEnded ==
    /\ BulkEnds => txn' = NoTxn
    /\ UserEnds => utxn' = NoTxn

\* abortTransaction is applied to a transaction that is still open, never
\* to one that was committed.
NeverBoth ==
    /\ BulkAborts => txn # NoTxn
    /\ UserAborts => utxn # NoTxn
    /\ BulkCommits => txn # NoTxn
    /\ UserCommits => utxn # NoTxn

====
